---- MODULE Spec2Model ----
(***************************************************************************)
(* Token acquisition and retrieval in sumo-wrapper-python, all generations *)
(* of the auth logic: Auth (_auth.py) with its facades CallAzureApi and    *)
(* the legacy SumoClient, NewAuth (_new_auth.py) below the current         *)
(* SumoClient, and the AuthProvider family (_auth_provider.py); and the     *)
(* HTTP verbs of the three clients, which retrieve a token and send it.    *)
(*                                                                         *)
(* msal and the identity provider are outside the repository: every answer *)
(* they give is a nondeterministic choice over the shapes the library can  *)
(* return (a token dict, an error dict, a dict with neither key, None).    *)
(* Time is counted in ticks, TPS ticks to a second, so that the difference *)
(* between time.time() and int(time.time()) is visible.                    *)
(***************************************************************************)
EXTENDS Integers, Sequences, FiniteSets, TLC

\* ---------------------------------------------------------------- bounds
\* ticks per second
TPS == 2
\* the clock is read at the instants k * Period + j, k <= Coarse, j <= Fine
Fine == 3
Coarse == 1
\* tokens the identity provider issues in one behaviour
MaxTokens == 2
\* threads calling get_token on one session at the same time
NThreads == 2

\* ------------------------------------------------------ program constants
\* _set_expiring_date(time_left, threshold=60), seconds
THRESHOLD == 60

\* ------------------------------------------------------------ Python data
None == "None"

\* the instants the clock is read at, in ticks
Period == (THRESHOLD + 1) * TPS
Instants == {k * Period + j : k \in 0..Coarse, j \in 0..Fine}

\* expires_in of an issued token, in seconds: shorter and longer than the
\* safety threshold
ExpiresIn == {THRESHOLD - 1, THRESHOLD + 1}

\* int(time.time()): the clock reading truncated to whole seconds
IntTime(t) == (t \div TPS) * TPS

\* bool(x) of a string or None
Truthy(x) == x \notin {None, ""}

\* Token strings.  kind "jwt": decodes as a JWT whose exp claim is exp (in
\* ticks, so a fractional NumericDate is an odd number of ticks when TPS is
\* 2); "opaque": does not decode; "empty": the string ""; "None": None.
NoneTok == [kind |-> "None", id |-> 0, exp |-> 0]
EmptyTok == [kind |-> "empty", id |-> 0, exp |-> 0]
OpaqueTok == [kind |-> "opaque", id |-> 0, exp |-> 0]
Jwt(i, e) == [kind |-> "jwt", id |-> i, exp |-> e]

\* bool(token)
TruthyTok(tok) == tok.kind \notin {"None", "empty"}

\* the exp claims of caller-supplied tokens: whole and fractional seconds
UserExps == {TPS, TPS + 1}
UserJwts == {Jwt(0, e) : e \in UserExps}

\* ------------------------------------------------ strategy selection (C1)
ManagedVars ==
  {"AZURE_FEDERATED_TOKEN_FILE", "AZURE_TENANT_ID", "AZURE_CLIENT_ID",
   "AZURE_AUTHORITY_HOST"}

\* os.getenv(x): None for an unset variable, else its value ("" when the
\* variable is set to the empty string)
EnvValues == {None, "", "v"}

Strategies == {"Managed", "RefreshToken", "AccessToken", "Interactive", "DeviceCode"}

\* a mutant: the access token is tested before the refresh token
get_auth_provider_swapped(env, interactive, access_token, refresh_token) ==
  IF \A x \in ManagedVars : Truthy(env[x]) THEN "Managed"
  ELSE IF TruthyTok(access_token) THEN "AccessToken"
  ELSE IF TruthyTok(refresh_token) THEN "RefreshToken"
  ELSE IF interactive THEN "Interactive"
  ELSE "DeviceCode"

get_auth_provider(env, interactive, access_token, refresh_token) ==
  IF \A x \in ManagedVars : Truthy(env[x]) THEN "Managed"
  ELSE IF TruthyTok(refresh_token) THEN "RefreshToken"
  ELSE IF TruthyTok(access_token) THEN "AccessToken"
  ELSE IF interactive THEN "Interactive"
  ELSE "DeviceCode"

\* ------------------------------------------------------------- variables
VARIABLES
  now,        \* the clock, in ticks
  platform,   \* sys.platform
  fs,         \* ~/.sumo and ~/.sumo/{resource_id}.token
  phase,      \* "start", "ready" (constructed), "failed" (constructor raised)
  gen,        \* which class the caller constructed
  environ,    \* os.environ, the four managed-identity variables
  attempted,  \* the strategies whose constructor has been entered
  cache,      \* TRUE when the msal application's cache holds an account
  changed,    \* the cache's has_state_changed: it differs from what was
              \* last loaded or serialized
  auth,       \* the Auth object
  facade,     \* CallAzureApi / SumoClient fields around the session
  prov,       \* the AuthProvider object
  args,       \* the arguments given to the constructor
  nextId,     \* tokens issued so far
  last,       \* what the last call did and how it ended
  save,       \* where a running Auth._write_cache stands
  threads,    \* where each thread's Auth.get_token call stands
  load,       \* where a running load of the token cache stands
  blobstore,  \* the bytes the blob store holds for the object, "None" for none
  umask,      \* the file-creation mask of the process
  umask0,     \* the mask the process had before the first _write_cache call
  writers,    \* the threads inside Auth._write_cache, and their old_mask
  attempt     \* a call of a function wrapped by http_retry

vars == <<now, platform, fs, phase, gen, environ, attempted, cache, changed,
          auth, facade, prov, args, nextId, last, save, threads, load,
          blobstore, umask, umask0, writers, attempt>>

\* --------------------------------------------------------- the file system
Platforms == {"linux", "win32"}
IsWin(plat) == plat = "win32"
IsLinux(plat) == plat = "linux"

\* mode "0644" stands for any mode with a group or other bit set
FileStates ==
  [exists : {FALSE}, mode : {"0600"}, content : {"noacct"}, dirmode : {"0700", "0755"}]
  \cup [exists : {TRUE}, mode : {"0600", "0644"}, content : {"noacct", "acct"},
        dirmode : {"0700", "0755"}]

\* st_mode & (S_IRWXG | S_IRWXO)
GroupOther(mode) == mode # "0600"

\* ------------------------------------------------ what the provider answers
\* a result dict: "token" has access_token and expires_in, "error" has error,
\* "empty" has neither, "None" is None, "unset" is an attribute never set
Res(k, tok, e) == [kind |-> k, tok |-> tok, expires_in |-> e]
NoRes(k) == Res(k, NoneTok, 0)

\* the shapes of an answer; the token itself is made when the call happens.
\* "cached": msal served the access token from its cache without touching
\* the cache, which it does for a token with a long remaining lifetime
Shape(k, e) == [kind |-> k, expires_in |-> e, cached |-> FALSE]
TokenShapes == {Shape("token", e) : e \in ExpiresIn}
CachedShapes == {[Shape("token", THRESHOLD + 1) EXCEPT !.cached = TRUE]}
SilentShapes ==
  TokenShapes \cup CachedShapes
    \cup {Shape("error", 0), Shape("empty", 0), Shape("None", 0)}
FlowShapes == TokenShapes \cup {Shape("error", 0)}

\* the provider's answer of shape sh at time t, i tokens issued before
Answer(sh, t, i) ==
  IF sh.kind = "token"
  THEN Res("token", Jwt(i + 1, t + sh.expires_in * TPS), sh.expires_in)
  ELSE NoRes(sh.kind)

\* --------------------------------------------- one call, threaded as a record
\* what a call did: silent provider calls and how many of them gave a
\* result that is true in Python (a non-empty dict), refresh-token
\* exchanges, login flows started, cache file writes, and how many of the
\* writes were made while the cache had not changed, and HTTP requests
\* issued to the target API
Acts ==
  [silent |-> 0, found |-> 0, exchange |-> 0, flows |-> 0, writes |-> 0,
   idle |-> 0, http |-> 0]

\* a returned string: the token itself, or "Bearer " + token
Plain(tok) == [scheme |-> "", tok |-> tok]
Bearer(tok) == [scheme |-> "Bearer", tok |-> tok]

\* no Authorization header
NoHeader == [scheme |-> "none", tok |-> NoneTok]

\* what a caller sees of a verb: how it ended, what it returned, and the
\* requests it issued
NoTwin ==
  [outcome |-> "none", exc |-> "", result |-> "none", http |-> 0,
   sent |-> NoHeader, ctype |-> "none", status |-> 0, content |-> "none"]

Raise(m, e) == [m EXCEPT !.exc = e]
Return(m, v) == [m EXCEPT !.value = v]
Raised(m) == m.exc # ""

\* --------------------------------------------------------- Auth (_auth.py)
NewAuthObject(wb, accts) ==
  [result |-> NoRes("unset"), has_expiring_date |-> FALSE, expiring_date |-> 0,
   accounts |-> accts, writeback |-> wb]

\* "blob" and "json" are the payloads a verb was called with, "target" the
\* kind of path or url, "sent" and "ctype" the Authorization and
\* Content-Type headers of the request it issued, "status" the status code
\* of the response, "result" the kind of value returned, "log" the order of
\* its steps, "twin" what the verb's sync or async counterpart does on the
\* same inputs
Start(a, fsys, c, i) ==
  [auth |-> a, fs |-> fsys, cache |-> c, changed |-> FALSE, nextId |-> i,
   acts |-> Acts, exc |-> "", ret |-> TRUE, value |-> Plain(NoneTok),
   blob |-> "None", json |-> "None", sent |-> NoHeader, status |-> 0,
   log |-> <<>>, target |-> "plain", ctype |-> "none", result |-> "none",
   twin |-> NoTwin, store |-> "None", content |-> "none",
   object_id |-> "None", url |-> "None", env |-> "dev", flowlog |-> <<>>]

\* the steps of a device-code flow, appended to "flowlog" in the order they
\* are taken: initiate_device_flow returns a flow ("flow") or the provider's
\* error ("refused"), flow["message"] is printed, the provider is polled for
\* the token
Initiated(m, flow) ==
  [m EXCEPT !.acts.flows = @ + 1,
            !.flowlog = Append(@, IF flow = "error" THEN "refused" ELSE "flow")]
Prompted(m) == [m EXCEPT !.flowlog = Append(Append(@, "print"), "poll")]

\* a mutant: the mode of the token file is not looked at
check_token_security_skipped(fsys, plat) == TRUE

\* Auth._check_token_security
check_token_security(fsys, plat) ==
  IF IsWin(plat) THEN TRUE ELSE ~GroupOther(fsys.mode)

\* a mutant: the expiry is stored without the safety threshold
set_expiring_date_unsafe(a, time_left, t) ==
  [a EXCEPT !.expiring_date = t + time_left * TPS,
            !.has_expiring_date = TRUE]

\* Auth._set_expiring_date
set_expiring_date(a, time_left, t) ==
  [a EXCEPT !.expiring_date = t + (time_left - THRESHOLD) * TPS,
            !.has_expiring_date = TRUE]

\* a mutant: the token counts as expired at the stored expiry itself
is_token_expired_at(a, t) == t >= a.expiring_date

\* a mutant: the token counts as expired a second late
is_token_expired_late(a, t) == t > a.expiring_date + TPS

\* Auth.is_token_expired
is_token_expired(a, t) == t > a.expiring_date

\* Auth._write_cache; self.cache.serialize() resets has_state_changed
write_cache(m, plat) ==
  [m EXCEPT
     !.fs = [exists |-> TRUE,
             mode |-> IF IsWin(plat) /\ m.fs.exists THEN m.fs.mode ELSE "0600",
             content |-> IF m.cache THEN "acct" ELSE "noacct",
             dirmode |-> IF IsWin(plat) THEN m.fs.dirmode ELSE "0700"],
     !.changed = FALSE,
     !.acts.writes = @ + 1,
     !.acts.idle = IF m.changed THEN @ ELSE @ + 1]

\* Auth._oauth_get_token_silent; sh is the provider's answer
oauth_get_token_silent(m, sh, t, plat) ==
  LET m1 == IF ~m.auth.accounts THEN [m EXCEPT !.auth.accounts = m.cache] ELSE m
  IN IF ~IsWin(plat) /\ ~m1.fs.exists THEN Raise(m1, "FileNotFoundError")
     ELSE IF ~check_token_security(m1.fs, plat) THEN Raise(m1, "SystemError")
     ELSE IF ~m1.auth.accounts THEN Raise(m1, "IndexError")
     ELSE
       LET r == Answer(sh, t, m1.nextId)
           m2 == [m1 EXCEPT !.auth.result = r,
                            !.acts.silent = @ + 1,
                            !.changed = @ \/ (r.kind = "token" /\ ~sh.cached),
                            !.nextId = IF r.kind = "token" THEN @ + 1 ELSE @]
       IN IF r.kind = "None" THEN Raise(m2, "TypeError")
          ELSE IF r.kind # "token" THEN [m2 EXCEPT !.ret = FALSE]
          ELSE
            LET m3 == [m2 EXCEPT !.auth = set_expiring_date(@, r.expires_in, t),
                                 !.ret = TRUE]
            IN IF m3.auth.writeback THEN write_cache(m3, plat) ELSE m3

\* Auth._oauth_device_code; flow is "ok" or "error", sh the polled answer
oauth_device_code(m, flow, sh, t, plat) ==
  LET m1 == Initiated(m, flow)
  IN IF flow = "error" THEN Raise(m1, "ValueError")
     ELSE
       LET r == Answer(sh, t, m1.nextId)
           m2 == [Prompted(m1) EXCEPT !.auth.result = r,
                            !.cache = @ \/ r.kind = "token",
                            !.changed = @ \/ r.kind = "token",
                            !.nextId = IF r.kind = "token" THEN @ + 1 ELSE @]
           \* except KeyError: logger.debug(self.result)
           m3 == IF r.kind = "token"
                 THEN [m2 EXCEPT !.auth = set_expiring_date(@, r.expires_in, t)]
                 ELSE m2
       IN write_cache(m3, plat)

\* Auth.__init__
AuthInit(wb, fsys, ssh, flow, dsh, t, plat, i) ==
  LET accts == fsys.exists /\ fsys.content = "acct"
      m0 == Start(NewAuthObject(wb, accts), fsys, accts, i)
  IN IF fsys.exists
     THEN IF ~accts
          THEN IF wb THEN oauth_device_code(m0, flow, dsh, t, plat)
               ELSE Raise(m0, "RuntimeError")
          ELSE LET s == oauth_get_token_silent(m0, ssh, t, plat)
               IN IF Raised(s) \/ s.ret \/ ~wb THEN s
                  ELSE oauth_device_code(s, flow, dsh, t, plat)
     ELSE oauth_device_code(m0, flow, dsh, t, plat)

\* Auth.get_token
\* a get_token that does not ask again once an acquisition has failed
AuthGetToken_sticky(m, sh, t, plat) ==
  IF ~m.auth.has_expiring_date THEN Raise(m, "AttributeError")
  ELSE
    LET m1 == IF is_token_expired(m.auth, t) /\ m.auth.result.kind = "token"
              THEN oauth_get_token_silent(m, sh, t, plat) ELSE m
    IN IF Raised(m1) THEN m1
       ELSE IF m1.auth.result.kind = "token" THEN Return(m1, Plain(m1.auth.result.tok))
       ELSE Raise(m1, "KeyError")

\* Auth.get_token
AuthGetToken(m, sh, t, plat) ==
  IF ~m.auth.has_expiring_date THEN Raise(m, "AttributeError")
  ELSE
    LET m1 == IF is_token_expired(m.auth, t)
              THEN oauth_get_token_silent(m, sh, t, plat) ELSE m
    IN IF Raised(m1) THEN m1
       ELSE IF m1.auth.result.kind = "token" THEN Return(m1, Plain(m1.auth.result.tok))
       ELSE Raise(m1, "KeyError")

\* ------------------------------- the fields of the objects around a session
NoFacade ==
  [bearer |-> NoneTok,             \* CallAzureApi.bearer, without "Bearer "
   has_auth |-> FALSE,             \* self.auth is an Auth / NewAuth object
   access_token |-> NoneTok,       \* SumoClient.access_token
   access_token_expires |-> 0,     \* SumoClient.access_token_expires
   user_token |-> NoneTok,         \* legacy SumoClient.user_provided_access_token
   refresh_token |-> NoneTok,      \* SumoClient.refresh_token
   interactive |-> FALSE,          \* NewAuth.interactive
   auth_refresh_token |-> NoneTok, \* NewAuth.refresh_token
   writeback |-> FALSE]            \* CallAzureApi.writeback

\* a call on the objects: the threaded record plus the facade's fields
WithFacade(m, f) == [m |-> m, f |-> f]

\* --------------------------------------- CallAzureApi (_call_azure_api.py)
\* CallAzureApi._generate_bearer_token
generate_bearer_token(c, sh, t, plat) ==
  LET m1 == AuthGetToken(c.m, sh, t, plat)
  IN IF Raised(m1) THEN WithFacade(m1, c.f)
     ELSE WithFacade(m1, [c.f EXCEPT !.bearer = m1.value.tok])

\* CallAzureApi._authenticate: Auth(self.client_id, self.resource_id,
\* self.writeback) binds writeback to Auth's third parameter, authority, so
\* the session's writeback keeps its default
authenticate(f, wb, fsys, ssh, flow, dsh, sh2, t, plat, i) ==
  LET m == AuthInit(FALSE, fsys, ssh, flow, dsh, t, plat, i)
  IN IF Raised(m) THEN WithFacade(m, f)
     ELSE generate_bearer_token(WithFacade(m, [f EXCEPT !.has_auth = TRUE]),
                                sh2, t, plat)

\* CallAzureApi.__init__
CallAzureApiInit(outside_token, wb, a0, fsys, c0, ssh, flow, dsh, sh2, t, plat, i) ==
  LET f == [NoFacade EXCEPT !.writeback = wb]
  IN IF outside_token
     THEN WithFacade(Start(a0, fsys, c0, i), f)
     ELSE authenticate(f, wb, fsys, ssh, flow, dsh, sh2, t, plat, i)

\* CallAzureApi.get_bearer_token
get_bearer_token(c) ==
  WithFacade([c.m EXCEPT !.value = IF c.f.bearer = NoneTok THEN Plain(NoneTok)
                                   ELSE Bearer(c.f.bearer)], c.f)

\* CallAzureApi._process_token
process_token(c, bearer, sh, t, plat) ==
  IF TruthyTok(bearer) THEN WithFacade(Return(c.m, Bearer(bearer)), c.f)
  ELSE IF ~c.f.has_auth THEN WithFacade(Raise(c.m, "AttributeError"), c.f)
  ELSE IF ~c.m.auth.has_expiring_date THEN WithFacade(Raise(c.m, "AttributeError"), c.f)
  ELSE
    LET c1 == IF is_token_expired(c.m.auth, t)
              THEN generate_bearer_token(c, sh, t, plat) ELSE c
    IN IF Raised(c1.m) THEN c1
       ELSE WithFacade(Return(c1.m, Bearer(c1.f.bearer)), c1.f)

\* ------------------------------------ legacy SumoClient (_sumo_client.py)
\* SumoClient.__init__
LegacyInit(access_token, write_back, a0, fsys, c0, ssh, flow, dsh, sh2, t, plat, i) ==
  LET f == [NoFacade EXCEPT !.user_token = access_token]
  IN IF TruthyTok(access_token)
     THEN WithFacade(Start(a0, fsys, c0, i), f)
     ELSE
       LET m == AuthInit(write_back, fsys, ssh, flow, dsh, t, plat, i)
           m1 == AuthGetToken(m, sh2, t, plat)
       IN IF Raised(m) THEN WithFacade(m, f)
          ELSE IF Raised(m1) THEN WithFacade(m1, [f EXCEPT !.has_auth = TRUE])
          ELSE WithFacade(m1, [f EXCEPT !.has_auth = TRUE,
                                        !.access_token = m1.value.tok])

\* SumoClient._retrieve_token
legacy_retrieve_token(c, sh, t, plat) ==
  IF TruthyTok(c.f.user_token)
  THEN WithFacade(Return(c.m, Plain(c.f.user_token)), c.f)
  ELSE IF ~c.m.auth.has_expiring_date THEN WithFacade(Raise(c.m, "AttributeError"), c.f)
  ELSE IF is_token_expired(c.m.auth, t)
  THEN LET m1 == AuthGetToken(c.m, sh, t, plat)
       IN IF Raised(m1) THEN WithFacade(m1, c.f)
          ELSE WithFacade(Return(m1, Plain(m1.value.tok)),
                          [c.f EXCEPT !.access_token = m1.value.tok])
  ELSE WithFacade(Return(c.m, Plain(c.f.access_token)), c.f)

\* ------------------------------------- files written by the msal libraries
\* PersistedTokenCache saves the cache after an acquisition changed it; the
\* mode of a file it creates is the library's choice, lm
persist(m, lm) ==
  [m EXCEPT !.fs = [@ EXCEPT !.exists = TRUE,
                             !.mode = IF m.fs.exists THEN @ ELSE lm,
                             !.content = IF m.cache THEN "acct" ELSE "noacct"],
            !.acts.writes = @ + 1]

\* the accounts a file-backed cache reports
FileAccounts(fsys) == fsys.exists /\ fsys.content = "acct"

\* ---------------------------------------- AuthProvider (_auth_provider.py)
NoProv == [strategy |-> "none", access_token |-> NoneTok, expires |-> 0]

\* a mutant: without a cached account get_token starts a login flow
provider_get_token_login(m, sh, t) ==
  LET r == Answer(sh, t, m.nextId)
      m1 == [m EXCEPT !.acts.silent = IF m.cache THEN @ + 1 ELSE @,
                      !.acts.flows = IF m.cache THEN @ ELSE @ + 1,
                      !.nextId = IF r.kind = "token" THEN @ + 1 ELSE @]
  IN IF r.kind = "None" THEN Raise(m1, "TypeError")
     ELSE IF r.kind = "error" THEN Raise(m1, "ValueError")
     ELSE IF r.kind = "empty" THEN Raise(m1, "KeyError")
     ELSE Return(m1, Plain(r.tok))

\* AuthProvider.get_token
provider_get_token(m, sh, t) ==
  IF ~m.cache THEN Raise(m, "IndexError")
  ELSE
    LET r == Answer(sh, t, m.nextId)
        m1 == [m EXCEPT !.acts.silent = @ + 1,
                        !.nextId = IF r.kind = "token" THEN @ + 1 ELSE @]
    IN IF r.kind = "None" THEN Raise(m1, "TypeError")
       ELSE IF r.kind = "error" THEN Raise(m1, "ValueError")
       ELSE IF r.kind = "empty" THEN Raise(m1, "KeyError")
       ELSE Return(m1, Plain(r.tok))

\* AuthProviderAccessToken.__init__: jwt.decode and payload["exp"]
access_token_init(m, p, access_token) ==
  IF access_token.kind # "jwt" THEN WithFacade(Raise(m, "DecodeError"), p)
  ELSE WithFacade(m, [p EXCEPT !.access_token = access_token,
                               !.expires = access_token.exp])

\* AuthProviderAccessToken.get_token
access_token_get_token(m, p, t) ==
  IF t >= p.expires THEN Raise(m, "ValueError")
  ELSE Return(m, Plain(p.access_token))

\* AuthProviderRefreshToken.__init__: the answer of the exchange is dropped
refresh_token_init(m, sh, t) ==
  LET r == Answer(sh, t, m.nextId)
  IN [m EXCEPT !.acts.exchange = @ + 1,
               !.cache = r.kind = "token",
               !.nextId = IF r.kind = "token" THEN @ + 1 ELSE @]

\* protect_token_cache
protect_token_cache(m, plat) ==
  IF ~IsLinux(plat) THEN m
  ELSE IF ~m.fs.exists THEN Raise(m, "FileNotFoundError")
  ELSE IF m.fs.mode # "0600"
  THEN [m EXCEPT !.fs.mode = "0600", !.fs.dirmode = "0700"]
  ELSE m

\* AuthProviderInteractive.login
interactive_login(m, sh, t, lm) ==
  LET r == Answer(sh, t, m.nextId)
      m1 == [m EXCEPT !.acts.flows = @ + 1]
  IN IF r.kind = "error" THEN Raise(m1, "ValueError")
     ELSE persist([m1 EXCEPT !.cache = TRUE, !.nextId = @ + 1], lm)

\* a mutant: the instructions are printed and the provider is polled
\* whether or not the flow was created
device_code_login_unchecked(m, flow, sh, t, plat, lm) ==
  LET r == Answer(sh, t, m.nextId)
      m1 == Prompted(Initiated(m, flow))
  IN IF r.kind = "error" THEN Raise(m1, "ValueError")
     ELSE protect_token_cache(
            persist([m1 EXCEPT !.cache = TRUE, !.nextId = @ + 1], lm), plat)

\* AuthProviderDeviceCode.login
device_code_login(m, flow, sh, t, plat, lm) ==
  LET r == Answer(sh, t, m.nextId)
      m1 == Initiated(m, flow)
      m2 == Prompted(m1)
  IN IF flow = "error" THEN Raise(m1, "ValueError")
     ELSE IF r.kind = "error" THEN Raise(m2, "ValueError")
     ELSE protect_token_cache(
            persist([m2 EXCEPT !.cache = TRUE, !.nextId = @ + 1], lm), plat)

\* AuthProviderInteractive.__init__ / AuthProviderDeviceCode.__init__:
\* if self.get_token() is None: self.login()
flow_provider_init(m, strategy, ssh, flow, dsh, t, plat, lm) ==
  LET m0 == [m EXCEPT !.cache = FileAccounts(m.fs)]
      g == provider_get_token(m0, ssh, t)
  IN IF Raised(g) THEN g
     ELSE IF g.value.tok # NoneTok THEN [g EXCEPT !.value = Plain(NoneTok)]
     ELSE IF strategy = "Interactive" THEN interactive_login(g, dsh, t, lm)
     ELSE device_code_login(g, flow, dsh, t, plat, lm)

\* the constructor get_auth_provider calls
ProviderInit(strategy, m, access_token, ssh, flow, dsh, t, plat, lm) ==
  LET p == [NoProv EXCEPT !.strategy = strategy]
  IN CASE strategy = "Managed" -> WithFacade(m, p)
       [] strategy = "RefreshToken" -> WithFacade(refresh_token_init(m, ssh, t), p)
       [] strategy = "AccessToken" -> access_token_init(m, p, access_token)
       [] OTHER ->
            WithFacade(flow_provider_init(m, strategy, ssh, flow, dsh, t, plat, lm), p)

\* AuthProviderManaged.get_token: the credential's answer or its exception
managed_get_token(m, sh, t) ==
  LET r == Answer(sh, t, m.nextId)
  IN IF r.kind = "token" THEN Return([m EXCEPT !.nextId = @ + 1], Plain(r.tok))
     ELSE Raise(m, "CredentialUnavailableError")

\* get_token of the provider that was constructed
ProviderGetToken(m, p, sh, t) ==
  CASE p.strategy = "Managed" -> managed_get_token(m, sh, t)
    [] p.strategy = "AccessToken" -> access_token_get_token(m, p, t)
    [] OTHER -> provider_get_token(m, sh, t)

\* login() of the provider that was constructed; only the two flow
\* providers have the method
provider_login(m, p, flow, sh, t, plat, lm) ==
  CASE p.strategy = "Interactive" -> interactive_login(m, sh, t, lm)
    [] p.strategy = "DeviceCode" -> device_code_login(m, flow, sh, t, plat, lm)
    [] OTHER -> Raise(m, "AttributeError")

\* ------------------------------------------------- NewAuth (_new_auth.py)
\* the chmod block that ends NewAuth.get_token
new_auth_protect(m, plat) ==
  IF ~IsLinux(plat) THEN m
  ELSE IF ~m.fs.exists THEN Raise(m, "FileNotFoundError")
  ELSE [m EXCEPT !.fs.mode = "0600", !.fs.dirmode = "0700"]

\* NewAuth.get_token, from "if not result" on; "res" is the result so far
new_auth_acquire(m, f, res, flow, dsh, t, lm) ==
  IF res.kind \in {"token", "error"} THEN [m |-> m, res |-> res]
  ELSE IF TruthyTok(f.auth_refresh_token)
  THEN LET r == Answer(dsh, t, m.nextId)
           m1 == [m EXCEPT !.acts.exchange = @ + 1]
       IN IF r.kind = "error" THEN [m |-> Raise(m1, "ValueError"), res |-> r]
          ELSE [m |-> persist([m1 EXCEPT !.cache = TRUE, !.nextId = @ + 1], lm),
                res |-> r]
  ELSE LET r == Answer(dsh, t, m.nextId)
           \* acquire_token_interactive, or initiate_device_flow
           m1 == IF f.interactive THEN [m EXCEPT !.acts.flows = @ + 1]
                 ELSE Initiated(m, flow)
           m2 == IF f.interactive THEN m1 ELSE Prompted(m1)
       IN IF ~f.interactive /\ flow = "error"
          THEN [m |-> Raise(m1, "ValueError"), res |-> res]
          ELSE IF r.kind = "error" THEN [m |-> Raise(m2, "ValueError"), res |-> r]
          ELSE [m |-> persist([m2 EXCEPT !.cache = TRUE, !.nextId = @ + 1], lm),
                res |-> r]

\* NewAuth.get_token
new_auth_get_token(m, f, ssh, flow, dsh, t, plat, lm) ==
  LET m0 == [m EXCEPT !.cache = FileAccounts(m.fs)]
      r0 == IF m0.cache THEN Answer(ssh, t, m0.nextId) ELSE NoRes("None")
      m1 == IF m0.cache
            THEN [m0 EXCEPT !.acts.silent = @ + 1,
                            !.acts.found = IF r0.kind \in {"token", "error"}
                                           THEN @ + 1 ELSE @,
                            !.nextId = IF r0.kind = "token" THEN @ + 1 ELSE @]
            ELSE m0
      a == new_auth_acquire(m1, f, r0, flow, dsh, t, lm)
      m2 == IF Raised(a.m) THEN a.m ELSE new_auth_protect(a.m, plat)
  IN IF Raised(m2) THEN m2
     ELSE IF a.res.kind = "token" THEN Return(m2, Plain(a.res.tok))
     ELSE IF a.res.kind = "None" THEN Raise(m2, "TypeError")
     ELSE Raise(m2, "KeyError")

\* ------------------------------------------- SumoClient (sumo_client.py)
\* SumoClient.__init__ and the NewAuth.__init__ it calls
SumoClientInit(token, interactive) ==
  IF TruthyTok(token)
  THEN IF token.kind = "jwt"
       THEN [NoFacade EXCEPT !.access_token = token,
                             !.access_token_expires = token.exp]
       ELSE [NoFacade EXCEPT !.refresh_token = token]
  ELSE [NoFacade EXCEPT !.has_auth = TRUE, !.interactive = interactive,
                        !.auth_refresh_token = NoneTok]

\* SumoClient._retrieve_token
retrieve_token(m, f, ssh, flow, dsh, t, plat, lm) ==
  IF TruthyTok(f.access_token)
  THEN IF f.access_token_expires <= IntTime(t) THEN Raise(m, "ValueError")
       ELSE Return(m, Plain(f.access_token))
  ELSE IF ~f.has_auth THEN Raise(m, "AttributeError")
  ELSE new_auth_get_token(m, f, ssh, flow, dsh, t, plat, lm)

\* ------------------------------------------------------- the HTTP verbs
\* a payload argument: None, an empty bytes / dict, or one with content
Payloads == {"None", "empty", "data"}

\* bool(blob), bool(json)
TruthyPayload(p) == p = "data"

\* what httpx / requests does with a request: a response with a status
\* code and a body that is JSON text ("json") or is not ("bytes"), or a
\* transport exception
ReplyWith(k, code, body) == [kind |-> k, code |-> code, body |-> body]
Reply(k, code) == ReplyWith(k, code, "json")
Replies ==
  {Reply("response", 200), Reply("response", 401), Reply("ProxyError", 0)}

\* the error status codes around the boundaries of the classification
ErrorCodes == (400..405) \cup (500..505)

\* every kind of answer: success with either body, a redirect (whose body is
\* empty), the error codes, a proxy failure and a connection failure
AllReplies ==
  {ReplyWith("response", 200, body) : body \in {"json", "bytes"}}
    \cup {ReplyWith("response", 302, "empty")}
    \cup {Reply("response", code) : code \in ErrorCodes}
    \cup {Reply("ProxyError", 0), Reply("ConnectError", 0)}

\* 3xx
IsRedirect(reply) ==
  reply.kind = "response" /\ 300 <= reply.code /\ reply.code <= 399

\* response.is_error (httpx), not response.ok (requests)
IsError(reply) ==
  reply.kind = "response" /\ 400 <= reply.code /\ reply.code <= 599

\* the provider's answers while a verb retrieves its token
VerbShapes == {Shape("token", THRESHOLD + 1), Shape("error", 0), Shape("None", 0)}
VerbFlowShapes == {Shape("token", THRESHOLD + 1), Shape("error", 0)}

\* a mutant: 404 is classified with the other 4xx codes
raise_request_error_exception_404(code) ==
  IF (503 <= code /\ code <= 504) \/ code = 500 THEN "TransientError"
  ELSE IF 401 <= code /\ code <= 403 THEN "AuthenticationError"
  ELSE "PermanentError"

\* raise_request_error_exception, and its copies in _call_azure_api.py and
\* in the legacy SumoClient
raise_request_error_exception(code) ==
  IF (503 <= code /\ code <= 504) \/ code = 404 \/ code = 500 THEN "TransientError"
  ELSE IF 401 <= code /\ code <= 403 THEN "AuthenticationError"
  ELSE "PermanentError"

SyncVerbs == {"get", "post", "put", "delete"}
AsyncVerbs == {"get_async", "post_async", "put_async", "delete_async"}
IsGet(verb) == verb \in {"get", "get_async"}
IsPost(verb) == verb \in {"post", "post_async"}
IsPut(verb) == verb \in {"put", "put_async"}

\* BlobClient.upload_blob and upload_blob_async
BlobVerbs == {"upload_blob", "upload_blob_async"}

\* the verbs whose request stands in "try: ... except ProxyError"
CatchesProxyError(verb) == IsPost(verb) \/ IsPut(verb) \/ verb \in BlobVerbs

\* the sync form of an async verb and the async form of a sync one
Twin(verb) ==
  CASE verb = "get" -> "get_async" [] verb = "get_async" -> "get"
    [] verb = "post" -> "post_async" [] verb = "post_async" -> "post"
    [] verb = "put" -> "put_async" [] verb = "put_async" -> "put"
    [] verb = "delete" -> "delete_async" [] verb = "delete_async" -> "delete"
    [] verb = "upload_blob" -> "upload_blob_async"
    [] verb = "upload_blob_async" -> "upload_blob"

\* the payloads a verb takes
PayloadsOf(verb) == IF IsPost(verb) \/ IsPut(verb) THEN Payloads ELSE {"None"}

\* a mutant: the token is sent without the scheme
bare_header(tok) == Plain(tok)

\* "authorization": f"Bearer {token}"
bearer_header(tok) == Bearer(tok)

\* Content-Type of SumoClient.post and post_async:
\* "application/octet-stream" if blob else "application/json"
content_type_post(blob, json) ==
  IF TruthyPayload(blob) THEN "application/octet-stream" ELSE "application/json"

\* Content-Type of SumoClient.put and put_async, and of post and put of the
\* legacy SumoClient and of CallAzureApi:
\* "application/json" if json is not None else "application/octet-stream"
content_type_put(blob, json) ==
  IF json # "None" THEN "application/json" ELSE "application/octet-stream"

\* a get that decodes every body, the blob's too
Returned_json(verb, target) ==
  IF IsPost(verb) \/ IsPut(verb) THEN "response" ELSE "json"

\* what a verb of SumoClient returns for a response that is no error:
\* response.content for a get on a path with "/blob", response.json() for
\* every other get and for delete, the response itself for post and put
Returned(verb, target) ==
  IF IsGet(verb) THEN IF target = "blob" THEN "bytes" ELSE "json"
  ELSE IF IsPost(verb) \/ IsPut(verb) THEN "response"
  ELSE "json"

\* the blob store's answer to a get of the object's blob: with 200 go the
\* bytes it holds, and there is no 200 while it holds none
served(store, reply) ==
  IF reply.kind = "response" /\ reply.code = 200
  THEN IF store = "None" THEN Reply("response", 404)
       ELSE ReplyWith("response", 200, store)
  ELSE reply

\* what follows the call of httpx / requests: post and put catch ProxyError
\* and no verb catches another transport exception; an error status is
\* classified and raised; response.json() raises for a body that is no JSON
settle(m, verb, returns, answer) ==
  LET reply == IF IsGet(verb) /\ m.target = "blob" THEN served(m.store, answer)
               ELSE answer
  IN IF reply.kind # "response"
     THEN IF reply.kind = "ProxyError" /\ CatchesProxyError(verb)
          THEN Raise(m, raise_request_error_exception(503))
          ELSE Raise(m, reply.kind)
     ELSE LET m1 == [m EXCEPT !.status = reply.code]
          IN IF IsError(reply)
             THEN Raise(m1, raise_request_error_exception(reply.code))
             ELSE IF returns = "json" /\ reply.body # "json"
             THEN Raise(m1, "JSONDecodeError")
             ELSE [m1 EXCEPT !.result = returns,
                             !.content = IF returns = "bytes" THEN reply.body
                                         ELSE "none"]

\* the blob store keeps the bytes of a put it answered with 200
stored(m, blob) ==
  IF ~Raised(m) /\ m.status = 200 THEN [m EXCEPT !.store = blob] ELSE m

\* the call of httpx / requests; "follows" says that the library follows a
\* redirect, which is a second request whose answer is "final"
send(m, verb, header, ctype, returns, follows, reply, final) ==
  LET m1 == [m EXCEPT !.acts.http = @ + 1, !.sent = header, !.ctype = ctype,
                      !.log = Append(@, "request"), !.status = reply.code]
  IN IF IsRedirect(reply) /\ follows
     THEN settle([m1 EXCEPT !.acts.http = @ + 1], verb, returns, final)
     ELSE settle(m1, verb, returns, reply)

\* the call record of a verb once the token is there; the value returned is
\* a response, not a token
Retrieved(m, blob, json) ==
  [m EXCEPT !.blob = blob, !.json = json, !.value = Plain(NoneTok),
            !.log = IF Raised(m) THEN @ ELSE Append(@, "token")]

\* str(len(json) if json else len(blob)) raises for len(None)
LenRaises(blob, json) == ~TruthyPayload(json) /\ blob = "None"

\* SumoClient.get, post, put, delete and their _async forms, from the
\* call of self._retrieve_token() on: g is what that call did.  post
\* computes the content length only "if blob or json".  Only get passes
\* follow_redirects=True.
sumo_client_verb(g, verb, blob, json, target, reply, final) ==
  LET m1 == [Retrieved(g, blob, json) EXCEPT !.target = target]
  IN IF Raised(g) THEN m1
     ELSE IF (IsPost(verb) \/ IsPut(verb))
             /\ TruthyPayload(blob) /\ TruthyPayload(json)
     THEN Raise(m1, "ValueError")
     ELSE IF IsPut(verb) /\ LenRaises(blob, json) THEN Raise(m1, "TypeError")
     ELSE send(m1, verb, bearer_header(g.value.tok),
               IF IsPost(verb) THEN content_type_post(blob, json)
               ELSE IF IsPut(verb) THEN content_type_put(blob, json)
               ELSE "application/json",
               Returned(verb, target), verb = "get", reply, final)

\* legacy SumoClient.get, post, put, delete, from the call of
\* self._retrieve_token() on: g is what that call did; requests follows
\* redirects unless told otherwise
legacy_verb(g, verb, blob, json, target, reply, final) ==
  LET m1 == [Retrieved(g.m, blob, json) EXCEPT !.target = target]
  IN IF Raised(g.m) THEN WithFacade(m1, g.f)
     ELSE IF (IsPost(verb) \/ IsPut(verb))
             /\ TruthyPayload(blob) /\ TruthyPayload(json)
     THEN WithFacade(Raise(m1, "ValueError"), g.f)
     ELSE IF (IsPost(verb) \/ IsPut(verb)) /\ LenRaises(blob, json)
     THEN WithFacade(Raise(m1, "TypeError"), g.f)
     ELSE WithFacade(send(m1, verb, bearer_header(g.m.value.tok),
                          IF IsPost(verb) \/ IsPut(verb)
                          THEN content_type_put(blob, json)
                          ELSE "application/json",
                          Returned(verb, target), TRUE, reply, final), g.f)

\* CallAzureApi.put with the header set whatever the url is
put_authorization_always(target, bearer) == bearer

\* CallAzureApi.put: if url.find("sig=") < 0: headers["Authorization"] = bearer
put_authorization(target, bearer) ==
  IF target = "sig" THEN NoHeader ELSE bearer

\* CallAzureApi.get_json (a get on a "plain" url), get_content (a get on
\* a "blob" url), post, put, delete_object, from the call of
\* self._process_token(bearer) on: g is what that call did.  A "sig" url
\* has the text "sig=" in it; the header is the string _process_token
\* returned.  A put of bytes alone is what CallSumoApi.save_blob issues.
call_azure_api_verb(g, verb, blob, json, target, reply) ==
  LET m1 == [Retrieved(g.m, blob, json) EXCEPT !.target = target]
  IN IF Raised(g.m) THEN WithFacade(m1, g.f)
     ELSE IF (IsPost(verb) \/ IsPut(verb))
             /\ TruthyPayload(blob) /\ TruthyPayload(json)
     THEN WithFacade(Raise(m1, "ValueError"), g.f)
     ELSE IF (IsPost(verb) \/ IsPut(verb)) /\ LenRaises(blob, json)
     THEN WithFacade(Raise(m1, "TypeError"), g.f)
     ELSE LET m2 == send(m1, verb,
                         IF IsPut(verb) THEN put_authorization(target, g.m.value)
                         ELSE g.m.value,
                         IF IsPost(verb) \/ IsPut(verb)
                         THEN content_type_put(blob, json)
                         ELSE "application/json",
                         Returned(verb, target), FALSE, reply, reply)
          IN WithFacade(IF IsPut(verb) /\ json = "None" THEN stored(m2, blob)
                        ELSE m2, g.f)

\* BlobClient.upload_blob and upload_blob_async: no token is retrieved and
\* no Authorization header is built; len(blob) raises for None
blob_client_upload(m, verb, blob, target, reply) ==
  LET m1 == [m EXCEPT !.blob = blob, !.target = target]
  IN IF blob = "None" THEN Raise(m1, "TypeError")
     ELSE stored(send(m1, verb, NoHeader, "application/octet-stream",
                      "response", FALSE, reply, reply), blob)

\* ------------------------------------------- LogHandlerSumo (_logging.py)
\* a log record whose message formats, and one whose getMessage() raises
Records == {"formats", "unformattable"}

\* the exceptions that are no subclass of Exception
BaseExceptions == {"KeyboardInterrupt", "SystemExit", "GeneratorExit"}

\* the body of emit's try statement: the record is built, then
\* self._sumoClient.post("/message-log/new", json=json); g is what the
\* token retrieval inside post did
emit_body(m, record, g, reply) ==
  IF record = "unformattable" THEN Raise(m, "TypeError")
  ELSE sumo_client_verb(g, "post", "None", "data", "plain", reply, reply)

\* an emit without its except clause
emit_unguarded(m, record, g, reply) == emit_body(m, record, g, reply)

\* LogHandlerSumo.emit: "except Exception: pass", then return
emit(m, record, g, reply) ==
  LET r == emit_body(m, record, g, reply)
  IN IF Raised(r) /\ r.exc \notin BaseExceptions
     THEN [r EXCEPT !.exc = "", !.log = Append(@, "except " \o r.exc)]
     ELSE r

\* ---------------------------------------------- environments (config.py)
\* the keys of APP_REGISTRATION and of AGG_APP_REGISTRATION
APP_REGISTRATION == {"prod", "test", "dev", "preview", "localhost"}
AGG_APP_REGISTRATION == {"prod", "test", "dev", "preview", "localhost"}

\* the environments a caller names: two of the registry and one that is
\* not in it
Envs == {"dev", "localhost", "staging"}

\* SumoClient.__init__(env, token, interactive), from the registry check on
SumoClientNew(c, env, token, interactive) ==
  LET m == [c.m EXCEPT !.env = env]
  IN IF env \notin APP_REGISTRATION THEN WithFacade(Raise(m, "ValueError"), c.f)
     ELSE WithFacade(m, SumoClientInit(token, interactive))

\* SumoAggregationClient.__init__(env, interactive): the registry check and
\* the NewAuth object
SumoAggregationClientInit(c, env, interactive) ==
  LET m == [c.m EXCEPT !.env = env]
  IN IF env \notin AGG_APP_REGISTRATION
     THEN WithFacade(Raise(m, "ValueError"), c.f)
     ELSE WithFacade(m, [NoFacade EXCEPT !.has_auth = TRUE,
                                         !.interactive = interactive])

\* CallSumoApi.__init__(env, resource_id, client_id, outside_token,
\* writeback): APP_REGISTRATION[env] is subscripted only for an id that was
\* not passed, and a key that is missing raises KeyError; then comes
\* CallAzureApi(resource_id, client_id, outside_token, writeback=writeback)
CallSumoApiInit(c, env, resource_id, client_id, outside_token, wb, ssh, flow, dsh, sh2, t, plat) ==
  IF (~resource_id \/ ~client_id) /\ env \notin APP_REGISTRATION
  THEN WithFacade(Raise([c.m EXCEPT !.env = env], "KeyError"), c.f)
  ELSE LET x == CallAzureApiInit(outside_token, wb, c.m.auth, c.m.fs,
                                 c.m.cache, ssh, flow, dsh, sh2, t, plat,
                                 c.m.nextId)
       IN WithFacade([x.m EXCEPT !.env = env], x.f)

\* ------------------------------------------ CallSumoApi (_call_sumo_api.py)
\* the object ids and urls handed to an update: None, "", a value
ObjectIds == {"None", "empty", "id"}
Urls == {"None", "empty", "plain", "sig"}

\* bool(object_id), bool(url)
Given(x) == x \notin {"None", "empty"}

UpdateVerbs == {"update_top_level_json", "update_child_level_json"}

\* CallSumoApi._put_objects with no blob: the url is built from base_url
\* and object_id when url is None, and CallAzureApi.put is called; httpx
\* raises UnsupportedProtocol for the url "".  g is what the call of
\* self._process_token(bearer) inside put does.
put_objects(g, object_id, json, url, reply) ==
  LET x == call_azure_api_verb(g, "put", "None", json,
                               IF url = "None" THEN "plain" ELSE url,
                               IF url = "empty" THEN Reply("UnsupportedProtocol", 0)
                               ELSE reply)
  IN WithFacade([x.m EXCEPT !.object_id = object_id, !.url = url], x.f)

\* an update that asks for the token before it looks at its arguments
update_top_level_json_late(c, g, object_id, url, json, reply) ==
  IF ~Raised(g.m) /\ ~Given(object_id) /\ ~Given(url)
  THEN WithFacade([Raise(Retrieved(g.m, "None", json), "ValueError")
                     EXCEPT !.object_id = object_id, !.url = url], g.f)
  ELSE put_objects(g, object_id, json, url, reply)

\* CallSumoApi.update_top_level_json
update_top_level_json(c, g, object_id, url, json, reply) ==
  IF ~Given(object_id) /\ ~Given(url)
  THEN WithFacade([Raise(c.m, "ValueError")
                     EXCEPT !.json = json, !.object_id = object_id, !.url = url],
                  c.f)
  ELSE put_objects(g, object_id, json, url, reply)

\* CallSumoApi.update_child_level_json
update_child_level_json(c, g, object_id, url, json, reply) ==
  IF ~Given(object_id) /\ ~Given(url)
  THEN WithFacade([Raise(c.m, "ValueError")
                     EXCEPT !.json = json, !.object_id = object_id, !.url = url],
                  c.f)
  ELSE put_objects(g, object_id, json, url, reply)

\* what a caller sees of a call
Summary(m) ==
  [outcome |-> IF Raised(m) THEN "raise" ELSE "return", exc |-> m.exc,
   result |-> m.result, http |-> m.acts.http, sent |-> m.sent,
   ctype |-> m.ctype, status |-> m.status, content |-> m.content]

\* ------------------------------------------------------------------ Init
\* no _write_cache is running; "umask" is the process file-creation mask
NoSave ==
  [pc |-> "idle", umask |-> "022",
   before |-> [exists |-> FALSE, mode |-> "0600", content |-> "noacct",
               dirmode |-> "0700"]]

\* no thread is inside Auth._write_cache
Masks == {"022", "077"}
NoWriter == [pc |-> "idle", old_mask |-> "022"]
NoWriters == [th \in 1..NThreads |-> NoWriter]

\* no call of a wrapped function is running; "number" is the attempt
\* number, "outcome" how the last attempt ended, "retried_after" the outcomes
\* that were followed by another attempt
NoOutcome == [exc |-> "", status |-> 0]
NoAttempt ==
  [pc |-> "idle", number |-> 0, outcome |-> NoOutcome, retried_after |-> {}]

\* no load of the token cache is running
NoLoad ==
  [pc |-> "idle", who |-> "none", token |-> "", exc |-> "", accounts |-> FALSE,
   before |-> [exists |-> FALSE, mode |-> "0600", content |-> "noacct",
               dirmode |-> "0700"]]

\* the threads that call get_token on one session
Threads == 1..NThreads
NoThread ==
  [pc |-> "idle", is_expired |-> FALSE, own |-> "none", exc |-> "",
   value |-> NoneTok, before |-> NoneTok]
NoThreads == [th \in Threads |-> NoThread]

NoCall ==
  [op |-> "none", outcome |-> "none", exc |-> "", value |-> Plain(NoneTok),
   given |-> NoneTok, acts |-> Acts, expired |-> FALSE, held |-> NoneTok,
   blob |-> "None", json |-> "None", sent |-> NoHeader, status |-> 0,
   log |-> <<>>, touched |-> FALSE, target |-> "plain", ctype |-> "none",
   result |-> "none", twin |-> NoTwin, content |-> "none",
   object_id |-> "None", url |-> "None", env |-> "dev", ret |-> TRUE,
   flowlog |-> <<>>]

NoArgs ==
  [interactive |-> FALSE, access_token |-> NoneTok, refresh_token |-> NoneTok,
   token |-> NoneTok]
NoEnviron == [x \in ManagedVars |-> None]

Init ==
  /\ now = 0
  /\ platform \in Platforms
  /\ fs \in FileStates
  /\ phase = "start"
  /\ gen = "none"
  /\ environ = NoEnviron
  /\ attempted = <<>>
  /\ cache = FALSE
  /\ changed = FALSE
  /\ auth = NewAuthObject(FALSE, FALSE)
  /\ facade = NoFacade
  /\ prov = NoProv
  /\ args = NoArgs
  /\ nextId = 0
  /\ last = NoCall
  /\ save = NoSave
  /\ threads = NoThreads
  /\ load = NoLoad
  /\ blobstore = "None"
  /\ umask = "022"
  /\ umask0 = umask
  /\ writers = NoWriters
  /\ attempt = NoAttempt

\* the objects as a call finds them
Cur ==
  WithFacade([Start(auth, fs, cache, nextId) EXCEPT !.changed = changed,
                                                    !.store = blobstore],
             facade)

\* the clock is later than the stored expiry
StoredExpired == auth.has_expiring_date /\ now > auth.expiring_date

\* what a call leaves behind; "given" is a token the caller passed to it
Commit(m, op, given) ==
  /\ m.nextId <= MaxTokens
  /\ auth' = m.auth
  /\ fs' = m.fs
  /\ cache' = m.cache
  /\ changed' = m.changed
  /\ nextId' = m.nextId
  /\ blobstore' = m.store
  /\ last' = [op |-> op,
              outcome |-> IF Raised(m) THEN "raise" ELSE "return",
              exc |-> m.exc, value |-> m.value, given |-> given,
              acts |-> m.acts, expired |-> StoredExpired,
              held |-> auth.result.tok,
              blob |-> m.blob, json |-> m.json, sent |-> m.sent,
              status |-> m.status, log |-> m.log, touched |-> m.fs # fs,
              target |-> m.target, ctype |-> m.ctype, result |-> m.result,
              twin |-> m.twin, content |-> m.content,
              object_id |-> m.object_id, url |-> m.url, env |-> m.env,
              ret |-> m.ret, flowlog |-> m.flowlog]

\* An action checks that its object is there before it makes the call, and
\* holds what the call did as one value: \E x \in {e} evaluates e once.
\* no object has been constructed yet
Starting == phase = "start"

\* the object of class g has been constructed
Ready(g) == phase = "ready" /\ gen = g

Constructed(m, g) ==
  /\ Starting
  /\ phase' = IF Raised(m) THEN "failed" ELSE "ready"
  /\ gen' = g
  /\ UNCHANGED <<now, platform, attempt, umask, umask0, writers, save, threads, load>>

Called(g) ==
  /\ Ready(g)
  /\ UNCHANGED <<now, platform, attempt, umask, umask0, writers, phase, gen, environ, attempted, args, save,
                 threads, load>>

Flows == {"ok", "error"}
FileModes == {"0600", "0644"}

\* the answers of msal a verb of SumoClient can meet: none is read when the
\* caller supplied a token or when there is no NewAuth object
VerbAnswers(f) ==
  IF TruthyTok(f.access_token) \/ ~f.has_auth
  THEN {<<Shape("None", 0), "ok", Shape("error", 0), "0600">>}
  ELSE VerbShapes \X Flows \X VerbFlowShapes \X FileModes

\* ------------------------------------------------------------ constructors
ConstructAuth ==
  /\ Starting
  /\ \E wb \in BOOLEAN, ssh \in SilentShapes, flow \in Flows, dsh \in FlowShapes :
       \E m \in {AuthInit(wb, fs, ssh, flow, dsh, now, platform, nextId)} :
          /\ Constructed(m, "Auth")
          /\ Commit(m, "Auth.__init__", NoneTok)
          /\ UNCHANGED <<environ, attempted, args, facade, prov>>

ConstructCallAzureApi ==
  /\ Starting
  /\ \E outside \in BOOLEAN, wb \in BOOLEAN, ssh \in SilentShapes, flow \in Flows,
        dsh \in FlowShapes, sh2 \in SilentShapes :
       \E c \in {CallAzureApiInit(outside, wb, auth, fs, cache, ssh, flow, dsh, sh2,
                                  now, platform, nextId)} :
          /\ Constructed(c.m, "CallAzureApi")
          /\ Commit(c.m, "CallAzureApi.__init__", NoneTok)
          /\ facade' = c.f
          /\ UNCHANGED <<environ, attempted, args, prov>>

ConstructLegacySumoClient ==
  /\ Starting
  /\ \E tok \in {NoneTok} \cup UserJwts, wb \in BOOLEAN, ssh \in SilentShapes,
        flow \in Flows, dsh \in FlowShapes, sh2 \in SilentShapes :
       \E c \in {LegacyInit(tok, wb, auth, fs, cache, ssh, flow, dsh, sh2,
                            now, platform, nextId)} :
          /\ Constructed(c.m, "LegacySumoClient")
          /\ Commit(c.m, "LegacySumoClient.__init__", tok)
          /\ facade' = c.f
          /\ UNCHANGED <<environ, attempted, args, prov>>

ConstructProvider(env, a) ==
  \E ssh \in SilentShapes, flow \in Flows, dsh \in FlowShapes, lm \in FileModes :
    LET strategy == get_auth_provider(env, a.interactive, a.access_token,
                                      a.refresh_token)
        c == ProviderInit(strategy, Cur.m, a.access_token, ssh, flow, dsh,
                          now, platform, lm)
    IN /\ Constructed(c.m, "AuthProvider")
       /\ Commit(c.m, "get_auth_provider", NoneTok)
       /\ environ' = env
       /\ args' = a
       /\ attempted' = Append(attempted, strategy)
       /\ prov' = c.f
       /\ UNCHANGED facade

ConstructSumoClient ==
  \E tok \in {NoneTok, OpaqueTok} \cup UserJwts, interactive \in BOOLEAN :
    /\ Constructed(Cur.m, "SumoClient")
    /\ Commit(Cur.m, "SumoClient.__init__", tok)
    /\ facade' = SumoClientInit(tok, interactive)
    /\ args' = [NoArgs EXCEPT !.interactive = interactive, !.token = tok]
    /\ UNCHANGED <<environ, attempted, prov>>

ConstructNewAuth ==
  \E interactive \in BOOLEAN, rt \in {NoneTok, OpaqueTok} :
    /\ Constructed(Cur.m, "NewAuth")
    /\ Commit(Cur.m, "NewAuth.__init__", rt)
    /\ facade' = [NoFacade EXCEPT !.has_auth = TRUE, !.interactive = interactive,
                                  !.auth_refresh_token = rt]
    /\ args' = [NoArgs EXCEPT !.interactive = interactive, !.refresh_token = rt]
    /\ UNCHANGED <<environ, attempted, prov>>

\* ------------------------------------------------------------------ calls
\* Auth.get_token
GetToken ==
  /\ Called("Auth")
  /\ \E sh \in SilentShapes :
       \E m \in {AuthGetToken(Cur.m, sh, now, platform)} :
          /\ Commit(m, "get_token", NoneTok)
          /\ UNCHANGED <<facade, prov>>

\* CallAzureApi._process_token, from get_json and the other verbs
ProcessToken ==
  /\ Called("CallAzureApi")
  /\ \E bearer \in {NoneTok} \cup UserJwts, sh \in SilentShapes :
       \E c \in {process_token(Cur, bearer, sh, now, platform)} :
          /\ Commit(c.m, "get_token", bearer)
          /\ facade' = c.f
          /\ UNCHANGED prov

\* CallAzureApi.get_bearer_token
GetBearerToken ==
  /\ Called("CallAzureApi")
  /\ \E c \in {get_bearer_token(Cur)} :
        /\ Commit(c.m, "get_bearer_token", NoneTok)
        /\ UNCHANGED <<facade, prov>>

\* legacy SumoClient._retrieve_token, from get, post, put and delete
LegacyRetrieveToken ==
  /\ Called("LegacySumoClient")
  /\ \E sh \in SilentShapes :
       \E c \in {legacy_retrieve_token(Cur, sh, now, platform)} :
          /\ Commit(c.m, "get_token", facade.user_token)
          /\ facade' = c.f
          /\ UNCHANGED prov

\* get_token of the provider get_auth_provider returned
ProviderGetTokenCall ==
  /\ Called("AuthProvider")
  /\ \E sh \in SilentShapes :
       \E m \in {ProviderGetToken(Cur.m, prov, sh, now)} :
          /\ Commit(m, "get_token", prov.access_token)
          /\ UNCHANGED <<facade, prov>>

\* login() called on the provider get_auth_provider returned
ProviderLogin ==
  /\ Called("AuthProvider")
  /\ \E flow \in Flows, sh \in FlowShapes, lm \in FileModes :
       \E m \in {provider_login(Cur.m, prov, flow, sh, now, platform, lm)} :
          /\ prov.strategy \in {"Interactive", "DeviceCode"}
          /\ Commit(m, "login", NoneTok)
          /\ UNCHANGED <<facade, prov>>

\* SumoClient._retrieve_token, from authenticate and every verb
RetrieveToken ==
  /\ Called("SumoClient")
  /\ \E ssh \in SilentShapes, flow \in Flows, dsh \in FlowShapes, lm \in FileModes :
       \E m \in {retrieve_token(Cur.m, facade, ssh, flow, dsh, now, platform, lm)} :
          /\ Commit(m, "get_token", facade.access_token)
          /\ UNCHANGED <<facade, prov>>

\* NewAuth.get_token
NewAuthGetToken ==
  /\ Called("NewAuth")
  /\ \E ssh \in SilentShapes, flow \in Flows, dsh \in FlowShapes, lm \in FileModes :
       \E m \in {new_auth_get_token(Cur.m, facade, ssh, flow, dsh, now, platform, lm)} :
          /\ Commit(m, "get_token", NoneTok)
          /\ UNCHANGED <<facade, prov>>

\* a request is a round trip over the network: the clock has moved before
\* the same caller starts its next verb
Rested ==
  last.op \notin SyncVerbs \cup AsyncVerbs \cup BlobVerbs \cup UpdateVerbs
                \cup {"emit"}

\* the paths of a get: with "/blob" in them or without
ClientTargets(verb) == IF IsGet(verb) THEN {"plain", "blob"} ELSE {"plain"}

\* the urls of CallAzureApi: get_content is called on blob urls, and a url
\* handed to put has the text "sig=" in it or has not
AzureTargets(verb) ==
  IF IsGet(verb) THEN {"plain", "blob"}
  ELSE IF IsPut(verb) THEN {"plain", "sig"}
  ELSE {"plain"}

\* the answers to the second request of a followed redirect
FinalsOf(follows, reply, replies) ==
  IF follows /\ IsRedirect(reply) THEN {r \in replies : ~IsRedirect(r)}
  ELSE {reply}

\* the provider hands out a token whenever it is asked
TokenShape == Shape("token", THRESHOLD + 1)
TokenAnswers(f) ==
  IF TruthyTok(f.access_token) \/ ~f.has_auth
  THEN {<<Shape("None", 0), "ok", Shape("error", 0), "0600">>}
  ELSE {<<TokenShape, "ok", TokenShape, "0600">>}

\* SumoClient.get, post, put, delete, sync and async, with the provider's
\* answers drawn from "answers" and the server's from "replies"
SumoClientCall(answers, replies) ==
  /\ Called("SumoClient")
  /\ Rested
  /\ \E in \in answers :
       \E g \in {retrieve_token(Cur.m, facade, in[1], in[2], in[3], now,
                                platform, in[4])} :
          \E verb \in SyncVerbs \cup AsyncVerbs, reply \in replies :
            \E blob \in PayloadsOf(verb), json \in PayloadsOf(verb),
               target \in ClientTargets(verb),
               final \in FinalsOf(IsGet(verb), reply, replies) :
              LET m == sumo_client_verb(g, verb, blob, json, target, reply, final)
                  t == sumo_client_verb(g, Twin(verb), blob, json, target, reply,
                                        final)
              IN /\ Commit([m EXCEPT !.twin = Summary(t)], verb,
                           facade.access_token)
                 /\ UNCHANGED <<facade, prov>>

SumoClientVerb == SumoClientCall(VerbAnswers(facade), Replies)

\* SumoClient.blob_client.upload_blob and upload_blob_async on a url that
\* has a signature ("sig") or has none
UploadBlob ==
  /\ Called("SumoClient")
  /\ Rested
  /\ \E verb \in BlobVerbs, blob \in Payloads, target \in {"plain", "sig"},
        reply \in AllReplies :
       LET m == blob_client_upload(Cur.m, verb, blob, target, reply)
           t == blob_client_upload(Cur.m, Twin(verb), blob, target, reply)
       IN /\ Commit([m EXCEPT !.twin = Summary(t)], verb, NoneTok)
          /\ UNCHANGED <<facade, prov>>

\* legacy SumoClient.get, post, put, delete
LegacyCall(shapes, replies) ==
  /\ Called("LegacySumoClient")
  /\ Rested
  /\ \E sh \in shapes :
       \E g \in {legacy_retrieve_token(Cur, sh, now, platform)} :
          \E verb \in SyncVerbs, reply \in replies :
            \E blob \in PayloadsOf(verb), json \in PayloadsOf(verb),
               target \in ClientTargets(verb),
               final \in FinalsOf(TRUE, reply, replies) :
              \E c \in {legacy_verb(g, verb, blob, json, target, reply, final)} :
                 /\ Commit(c.m, verb, facade.user_token)
                 /\ facade' = c.f
                 /\ UNCHANGED prov

LegacyVerb == LegacyCall(VerbShapes, Replies)

\* CallAzureApi.get_json and get_content ("get"), post, put, delete_object
\* ("delete")
CallAzureApiCall(shapes, replies) ==
  /\ Called("CallAzureApi")
  /\ Rested
  /\ \E sh \in shapes, bearer \in {NoneTok} \cup UserJwts :
       \E g \in {process_token(Cur, bearer, sh, now, platform)} :
          \E verb \in SyncVerbs, reply \in replies :
            \E blob \in PayloadsOf(verb), json \in PayloadsOf(verb),
               target \in AzureTargets(verb) :
              \E c \in {call_azure_api_verb(g, verb, blob, json, target, reply)} :
                 /\ Commit(c.m, verb, bearer)
                 /\ facade' = c.f
                 /\ UNCHANGED prov

CallAzureApiVerb == CallAzureApiCall(VerbShapes, Replies)

\* the same verbs met by every kind of answer of the server
SumoClientRespond == SumoClientCall(TokenAnswers(facade), AllReplies)
LegacyRespond == LegacyCall({TokenShape}, AllReplies)
CallAzureApiRespond == CallAzureApiCall({TokenShape}, AllReplies)

\* time passes between calls; "last" describes the call that has just ended
Advance ==
  /\ phase \in {"start", "ready"}
  /\ \E t \in Instants : t > now /\ now' = t
  /\ last' = NoCall
  /\ UNCHANGED <<platform, attempt, umask, umask0, writers, blobstore, fs, phase, gen, environ, attempted, cache, changed,
                 auth, facade, prov, args, nextId, save, threads, load>>

\* time passes between two requests, whole periods at a time
Periods == {k * Period : k \in 0..Coarse}
Elapse ==
  /\ phase \in {"start", "ready"}
  /\ \E t \in Periods : t > now /\ now' = t
  /\ last' = NoCall
  /\ UNCHANGED <<platform, attempt, umask, umask0, writers, blobstore, fs, phase, gen, environ, attempted, cache, changed,
                 auth, facade, prov, args, nextId, save, threads, load>>

\* The process ends, normally or with an exception at top level.  The
\* interpreter then runs the functions registered for exit; the package
\* registers none and no class has a finalizer, so none of its code runs
\* and the cache stays as the last call left it.
Exit ==
  /\ phase \in {"ready", "failed"}
  /\ phase' = "exited"
  /\ last' = [NoCall EXCEPT !.op = "exit", !.outcome = "return"]
  /\ UNCHANGED <<now, platform, attempt, umask, umask0, writers, blobstore, fs, gen, environ, attempted, cache, changed,
                 auth, facade, prov, args, nextId, save, threads, load>>

\* the arguments and environments the sessions of Spec are built from
SomeArgs ==
  [interactive : BOOLEAN, access_token : {NoneTok, OpaqueTok} \cup UserJwts,
   refresh_token : {NoneTok, OpaqueTok}, token : {NoneTok}]
SomeInputs ==
  {<<NoEnviron, a>> : a \in SomeArgs} \cup {<<[x \in ManagedVars |-> "v"], NoArgs>>}

ConstructAuthProvider ==
  \E in \in SomeInputs : ConstructProvider(in[1], in[2])

Next ==
  \/ ConstructAuth
  \/ ConstructCallAzureApi
  \/ ConstructLegacySumoClient
  \/ ConstructAuthProvider
  \/ ConstructSumoClient
  \/ ConstructNewAuth
  \/ GetToken
  \/ ProcessToken
  \/ GetBearerToken
  \/ LegacyRetrieveToken
  \/ ProviderGetTokenCall
  \/ ProviderLogin
  \/ RetrieveToken
  \/ NewAuthGetToken
  \/ Advance
  \/ Exit

Spec == Init /\ [][Next]_vars

\* the sessions built on Auth
NextAuth ==
  \/ ConstructAuth
  \/ ConstructCallAzureApi
  \/ ConstructLegacySumoClient
  \/ GetToken
  \/ ProcessToken
  \/ GetBearerToken
  \/ LegacyRetrieveToken
  \/ Advance

SpecAuth == Init /\ [][NextAuth]_vars

\* the sessions built on NewAuth and on the AuthProvider family
NextFlows ==
  \/ ConstructAuthProvider
  \/ ConstructSumoClient
  \/ ConstructNewAuth
  \/ ProviderGetTokenCall
  \/ ProviderLogin
  \/ RetrieveToken
  \/ NewAuthGetToken
  \/ Advance

SpecFlows == Init /\ [][NextFlows]_vars

\* the three clients and their verbs
NextVerbs ==
  \/ ConstructSumoClient
  \/ ConstructLegacySumoClient
  \/ ConstructCallAzureApi
  \/ SumoClientVerb
  \/ LegacyVerb
  \/ CallAzureApiVerb
  \/ Elapse

SpecVerbs == Init /\ [][NextVerbs]_vars

\* what a verb does with the server's answer depends neither on the
\* platform nor on the token cache: one platform, and a cache that is not
\* there yet or holds an account
InitResponses ==
  /\ Init
  /\ platform = "linux"
  /\ fs.mode = "0600" /\ fs.dirmode = "0700"
  /\ fs.exists => fs.content = "acct"

\* the three clients and every kind of answer to their requests
NextResponses ==
  \/ ConstructSumoClient
  \/ ConstructLegacySumoClient
  \/ ConstructCallAzureApi
  \/ SumoClientRespond
  \/ LegacyRespond
  \/ CallAzureApiRespond
  \/ UploadBlob
  \/ Elapse

SpecResponses == InitResponses /\ [][NextResponses]_vars

\* CallSumoApi.update_top_level_json and update_child_level_json on the
\* CallAzureApi object the CallSumoApi holds
UpdateTopLevelJson ==
  /\ Called("CallAzureApi")
  /\ Rested
  /\ \E sh \in VerbShapes, bearer \in {NoneTok} \cup UserJwts :
       \E g \in {process_token(Cur, bearer, sh, now, platform)} :
          \E object_id \in ObjectIds, url \in Urls, json \in Payloads,
             reply \in Replies :
            \E c \in {update_top_level_json(Cur, g, object_id, url, json, reply)} :
               /\ Commit(c.m, "update_top_level_json", bearer)
               /\ facade' = c.f
               /\ UNCHANGED prov

UpdateChildLevelJson ==
  /\ Called("CallAzureApi")
  /\ Rested
  /\ \E sh \in VerbShapes, bearer \in {NoneTok} \cup UserJwts :
       \E g \in {process_token(Cur, bearer, sh, now, platform)} :
          \E object_id \in ObjectIds, url \in Urls, json \in Payloads,
             reply \in Replies :
            \E c \in {update_child_level_json(Cur, g, object_id, url, json, reply)} :
               /\ Commit(c.m, "update_child_level_json", bearer)
               /\ facade' = c.f
               /\ UNCHANGED prov

NextUpdates ==
  \/ ConstructCallAzureApi
  \/ UpdateTopLevelJson
  \/ UpdateChildLevelJson
  \/ Elapse

SpecUpdates == InitResponses /\ [][NextUpdates]_vars

\* get_token and _process_token called again and again on one session: the
\* provider refuses (an error dict, an empty dict, None) or grants a token.
\* The provider refuses only while it has tokens left to issue.
RefusedShapes == {Shape("error", 0), Shape("empty", 0), Shape("None", 0)}

GetTokenRefused ==
  /\ Called("Auth")
  /\ nextId < MaxTokens
  /\ \E sh \in RefusedShapes :
       \E m \in {AuthGetToken(Cur.m, sh, now, platform)} :
          /\ Commit(m, "get_token", NoneTok)
          /\ UNCHANGED <<facade, prov>>

GetTokenGranted ==
  /\ Called("Auth")
  /\ \E sh \in TokenShapes :
       \E m \in {AuthGetToken(Cur.m, sh, now, platform)} :
          /\ Commit(m, "get_token", NoneTok)
          /\ UNCHANGED <<facade, prov>>

ProcessTokenRefused ==
  /\ Called("CallAzureApi")
  /\ nextId < MaxTokens
  /\ \E sh \in RefusedShapes :
       \E c \in {process_token(Cur, NoneTok, sh, now, platform)} :
          /\ Commit(c.m, "get_token", NoneTok)
          /\ facade' = c.f
          /\ UNCHANGED prov

ProcessTokenGranted ==
  /\ Called("CallAzureApi")
  /\ \E sh \in TokenShapes :
       \E c \in {process_token(Cur, NoneTok, sh, now, platform)} :
          /\ Commit(c.m, "get_token", NoneTok)
          /\ facade' = c.f
          /\ UNCHANGED prov

NextRetry ==
  \/ ConstructAuth
  \/ ConstructCallAzureApi
  \/ GetTokenRefused
  \/ GetTokenGranted
  \/ ProcessTokenRefused
  \/ ProcessTokenGranted
  \/ Elapse

\* the caller keeps calling and the provider does not refuse for ever
SpecRetry ==
  /\ InitResponses
  /\ [][NextRetry]_vars
  /\ WF_vars(GetTokenGranted)
  /\ WF_vars(ProcessTokenGranted)

\* LogHandlerSumo.emit on a handler that holds the SumoClient
Emit ==
  /\ Called("SumoClient")
  /\ Rested
  /\ \E in \in VerbAnswers(facade), record \in Records, reply \in AllReplies :
       LET g == retrieve_token(Cur.m, facade, in[1], in[2], in[3], now,
                               platform, in[4])
           m == emit(Cur.m, record, g, reply)
       IN /\ Commit(m, "emit", facade.access_token)
          /\ UNCHANGED <<facade, prov>>

NextLogging ==
  \/ ConstructSumoClient
  \/ Emit
  \/ Elapse

SpecLogging == InitResponses /\ [][NextLogging]_vars

\* the constructors that take an environment name
ConstructSumoClientIn ==
  /\ Starting
  /\ \E env \in Envs, tok \in {NoneTok, OpaqueTok} \cup UserJwts,
        interactive \in BOOLEAN :
       \E c \in {SumoClientNew(Cur, env, tok, interactive)} :
          /\ Constructed(c.m, "SumoClient")
          /\ Commit(c.m, "SumoClient.__init__", tok)
          /\ facade' = c.f
          /\ args' = [NoArgs EXCEPT !.interactive = interactive, !.token = tok]
          /\ UNCHANGED <<environ, attempted, prov>>

ConstructSumoAggregationClient ==
  /\ Starting
  /\ \E env \in Envs, interactive \in BOOLEAN :
       \E c \in {SumoAggregationClientInit(Cur, env, interactive)} :
          /\ Constructed(c.m, "SumoAggregationClient")
          /\ Commit(c.m, "SumoAggregationClient.__init__", NoneTok)
          /\ facade' = c.f
          /\ args' = [NoArgs EXCEPT !.interactive = interactive]
          /\ UNCHANGED <<environ, attempted, prov>>

ConstructCallSumoApi ==
  /\ Starting
  /\ \E env \in Envs, resource_id \in BOOLEAN, client_id \in BOOLEAN,
        outside \in BOOLEAN, wb \in BOOLEAN, ssh \in SilentShapes, flow \in Flows,
        dsh \in FlowShapes, sh2 \in SilentShapes :
       \E c \in {CallSumoApiInit(Cur, env, resource_id, client_id, outside, wb,
                                 ssh, flow, dsh, sh2, now, platform)} :
          /\ Constructed(c.m, "CallAzureApi")
          /\ Commit(c.m, "CallSumoApi.__init__", NoneTok)
          /\ facade' = c.f
          /\ UNCHANGED <<environ, attempted, args, prov>>

NextEnvs ==
  \/ ConstructSumoClientIn
  \/ ConstructSumoAggregationClient
  \/ ConstructCallSumoApi
  \/ Exit

SpecEnvs == Init /\ [][NextEnvs]_vars

\* ------------------------- get_auth_provider on every combination of inputs
AllEnvirons == [ManagedVars -> EnvValues]
AllArgs ==
  [interactive : BOOLEAN, access_token : {NoneTok, EmptyTok, OpaqueTok, Jwt(0, Period)},
   refresh_token : {NoneTok, EmptyTok, OpaqueTok}, token : {NoneTok}]

\* the inputs are there before the call
InitSelect ==
  /\ now = 0
  /\ platform = "linux"
  /\ fs \in {f \in FileStates : f.mode = "0600" /\ f.dirmode = "0700"}
  /\ phase = "start"
  /\ gen = "none"
  /\ environ \in AllEnvirons
  /\ attempted = <<>>
  /\ cache = FALSE
  /\ changed = FALSE
  /\ auth = NewAuthObject(FALSE, FALSE)
  /\ facade = NoFacade
  /\ prov = NoProv
  /\ args \in AllArgs
  /\ nextId = 0
  /\ last = NoCall
  /\ save = NoSave
  /\ threads = NoThreads
  /\ load = NoLoad
  /\ blobstore = "None"
  /\ umask = "022"
  /\ umask0 = umask
  /\ writers = NoWriters
  /\ attempt = NoAttempt

SelectProvider == ConstructProvider(environ, args)

NextSelect == SelectProvider

SpecSelect == InitSelect /\ [][NextSelect]_vars

\* ------------------------------------- Auth._write_cache, statement by statement
\* a session that is about to save its cache.  On POSIX a file that holds an
\* account and is open to group or others never gets here: the session
\* reads it silently first and _check_token_security raises
InitSave ==
  /\ now = 0
  /\ platform \in Platforms
  /\ fs \in FileStates
  /\ (~IsWin(platform) /\ fs.exists /\ GroupOther(fs.mode)) => fs.content = "noacct"
  /\ phase = "ready"
  /\ gen = "Auth"
  /\ environ = NoEnviron
  /\ attempted = <<>>
  /\ cache \in BOOLEAN
  /\ changed \in BOOLEAN
  /\ auth = NewAuthObject(TRUE, cache)
  /\ facade = NoFacade
  /\ prov = NoProv
  /\ args = NoArgs
  /\ nextId = 0
  /\ last = NoCall
  /\ save = NoSave
  /\ threads = NoThreads
  /\ load = NoLoad
  /\ blobstore = "None"
  /\ umask = "022"
  /\ umask0 = umask
  /\ writers = NoWriters
  /\ attempt = NoAttempt

SaveStep(pc) ==
  /\ save' = [save EXCEPT !.pc = pc]
  /\ UNCHANGED <<now, platform, attempt, umask, umask0, writers, blobstore, phase, gen, environ, attempted, cache, auth,
                 facade, prov, args, nextId, last, threads, load>>

\* old_mask = os.umask(0o077); os.makedirs(dir_path, exist_ok=True)
SaveEnter ==
  /\ save.pc = "idle"
  /\ save' = [pc |-> "entered", umask |-> "077", before |-> fs]
  /\ UNCHANGED <<now, platform, attempt, umask, umask0, writers, blobstore, fs, phase, gen, environ, attempted, cache,
                 changed, auth, facade, prov, args, nextId, last, threads, load>>

\* open(self.token_path, "w"): an existing file is truncated and keeps its
\* mode, a new one gets 0666 masked by the umask
SaveOpen ==
  /\ save.pc = "entered"
  /\ fs' = [fs EXCEPT !.exists = TRUE,
                      !.mode = IF fs.exists THEN @
                               ELSE IF save.umask = "077" THEN "0600" ELSE "0644",
                      !.content = "empty"]
  /\ SaveStep("open")
  /\ UNCHANGED changed

\* file.write(self.cache.serialize()) and the end of the with block
SaveWrite ==
  /\ save.pc = "open"
  /\ fs' = [fs EXCEPT !.content = IF cache THEN "acct" ELSE "noacct"]
  /\ changed' = FALSE
  /\ SaveStep("written")

\* os.chmod(self.token_path, 0o600)
SaveChmodFile ==
  /\ save.pc = "written"
  /\ ~IsWin(platform)
  /\ fs' = [fs EXCEPT !.mode = "0600"]
  /\ SaveStep("chmod")
  /\ UNCHANGED changed

\* os.chmod(dir_path, 0o700)
SaveChmodDir ==
  /\ save.pc = "chmod"
  /\ fs' = [fs EXCEPT !.dirmode = "0700"]
  /\ SaveStep("chmoddir")
  /\ UNCHANGED changed

\* os.umask(old_mask)
SaveLeave ==
  /\ \/ save.pc = "chmoddir"
     \/ save.pc = "written" /\ IsWin(platform)
  /\ save' = [save EXCEPT !.pc = "done", !.umask = "022"]
  /\ UNCHANGED <<now, platform, attempt, umask, umask0, writers, blobstore, fs, phase, gen, environ, attempted, cache,
                 changed, auth, facade, prov, args, nextId, last, threads, load>>

NextSave ==
  \/ SaveEnter
  \/ SaveOpen
  \/ SaveWrite
  \/ SaveChmodFile
  \/ SaveChmodDir
  \/ SaveLeave

SpecSave == InitSave /\ [][NextSave]_vars

\* the statements together do what write_cache does in one step
SaveAgrees ==
  save.pc = "done" =>
    LET m == write_cache([Start(auth, save.before, cache, nextId)
                            EXCEPT !.changed = TRUE], platform)
    IN fs = m.fs /\ changed = m.changed

\* ------------------------- Auth.get_token called from several threads at once
\* The session has no lock: a thread can be preempted between any two
\* statements, and self.result, self.expiring_date and the token file are
\* shared.  A thread's step is the code between two accesses to them.
ThreadStep(th, t) ==
  /\ phase = "ready"
  /\ gen = "Auth"
  /\ threads' = [threads EXCEPT ![th] = t]
  /\ UNCHANGED <<now, platform, attempt, umask, umask0, writers, blobstore, phase, gen, environ, attempted, facade, prov,
                 args, last, save, load>>

\* the provider's answers to the threads: a token, an error dict, None
ThreadShapes == {Shape("token", THRESHOLD + 1), Shape("error", 0), Shape("None", 0)}

ThreadRaise(th, e) == [threads[th] EXCEPT !.pc = "done", !.exc = e]

\* get_token: is_expired = self.is_token_expired()
ThreadBegin(th) ==
  /\ threads[th].pc = "idle"
  /\ ThreadStep(th,
       IF ~auth.has_expiring_date THEN ThreadRaise(th, "AttributeError")
       ELSE [threads[th] EXCEPT
               !.pc = IF is_token_expired(auth, now) THEN "silent" ELSE "return",
               !.is_expired = is_token_expired(auth, now),
               !.before = auth.result.tok])
  /\ UNCHANGED <<fs, cache, changed, auth, nextId>>

\* _oauth_get_token_silent up to self.result = acquire_token_silent_with_error
ThreadAcquire(th) ==
  \E sh \in ThreadShapes :
    LET accts == IF ~auth.accounts THEN cache ELSE auth.accounts
        r == Answer(sh, now, nextId)
        fails == IF ~IsWin(platform) /\ ~fs.exists THEN "FileNotFoundError"
                 ELSE IF ~check_token_security(fs, platform) THEN "SystemError"
                 ELSE IF ~accts THEN "IndexError"
                 ELSE ""
    IN /\ threads[th].pc = "silent"
       /\ IF fails # ""
          THEN /\ ThreadStep(th, [ThreadRaise(th, fails) EXCEPT !.own = "raised"])
               /\ auth' = [auth EXCEPT !.accounts = accts]
               /\ UNCHANGED <<changed, nextId>>
          ELSE /\ ThreadStep(th, [threads[th] EXCEPT !.pc = "acquired",
                                                     !.own = r.kind])
               /\ auth' = [auth EXCEPT !.accounts = accts, !.result = r]
               /\ changed' = (changed \/ (r.kind = "token" /\ ~sh.cached))
               /\ nextId' = IF r.kind = "token" THEN nextId + 1 ELSE nextId
               /\ nextId' <= MaxTokens
       /\ UNCHANGED <<fs, cache>>

\* if "access_token" in self.result: ... elif "error" in self.result: ...
ThreadInspect(th) ==
  /\ threads[th].pc = "acquired"
  /\ ThreadStep(th,
       IF auth.result.kind = "None" THEN ThreadRaise(th, "TypeError")
       ELSE IF auth.result.kind = "token" THEN [threads[th] EXCEPT !.pc = "expiry"]
       ELSE [threads[th] EXCEPT !.pc = "return"])
  /\ UNCHANGED <<fs, cache, changed, auth, nextId>>

\* self._set_expiring_date(int(self.result["expires_in"])) and, with
\* writeback, self._write_cache()
ThreadSetExpiry(th) ==
  LET m0 == [Start(auth, fs, cache, nextId) EXCEPT !.changed = changed]
      m1 == [m0 EXCEPT !.auth = set_expiring_date(@, auth.result.expires_in, now)]
      m2 == IF auth.writeback THEN write_cache(m1, platform) ELSE m1
  IN /\ threads[th].pc = "expiry"
     /\ IF auth.result.kind = "None"
        THEN /\ ThreadStep(th, ThreadRaise(th, "TypeError"))
             /\ UNCHANGED <<fs, cache, changed, auth, nextId>>
        ELSE IF auth.result.kind # "token"
        THEN /\ ThreadStep(th, ThreadRaise(th, "KeyError"))
             /\ UNCHANGED <<fs, cache, changed, auth, nextId>>
        ELSE /\ ThreadStep(th, [threads[th] EXCEPT !.pc = "return"])
             /\ auth' = m2.auth
             /\ fs' = m2.fs
             /\ changed' = m2.changed
             /\ UNCHANGED <<cache, nextId>>

\* return self.result["access_token"]
ThreadReturn(th) ==
  /\ threads[th].pc = "return"
  /\ ThreadStep(th,
       IF auth.result.kind = "None" THEN ThreadRaise(th, "TypeError")
       ELSE IF auth.result.kind # "token" THEN ThreadRaise(th, "KeyError")
       ELSE [threads[th] EXCEPT !.pc = "done", !.value = auth.result.tok])
  /\ UNCHANGED <<fs, cache, changed, auth, nextId>>

NextThreads ==
  \/ ConstructAuth
  \/ Advance
  \/ \E th \in Threads : ThreadBegin(th)
  \/ \E th \in Threads : ThreadAcquire(th)
  \/ \E th \in Threads : ThreadInspect(th)
  \/ \E th \in Threads : ThreadSetExpiry(th)
  \/ \E th \in Threads : ThreadReturn(th)

SpecThreads == Init /\ [][NextThreads]_vars

\* ------------------------------------------------ loading the token cache
\* What a token file can hold: a serialized cache with or without an account
\* ("acct", "noacct"), the same encrypted by build_encrypted_persistence
\* ("enc_..."), text that does not deserialize ("corrupt"), nothing ("empty")
PlainContents == {"acct", "noacct", "corrupt", "empty"}
EncryptedContents == {"enc_acct", "enc_noacct", "enc_corrupt"}

\* encrypted_persistence.save(token) of the text FilePersistence(...).load()
\* returned; the text of an empty file is an empty cache
Encrypt(c) ==
  CASE c = "acct" -> "enc_acct"
    [] c = "noacct" -> "enc_noacct"
    [] c = "empty" -> "enc_noacct"
    [] OTHER -> "enc_corrupt"

\* SerializableTokenCache.deserialize of a file's text: "" gives an empty
\* cache, anything that is not JSON raises
Deserializes(c) == c \in {"acct", "noacct", "empty"}

LoadFiles ==
  [exists : {FALSE}, mode : {"0600"}, content : {"noacct"}, dirmode : {"0700", "0755"}]
  \cup [exists : {TRUE}, mode : {"0600", "0644"},
        content : PlainContents \cup EncryptedContents, dirmode : {"0700", "0755"}]

InitLoad ==
  /\ now = 0
  /\ platform \in Platforms
  /\ fs \in LoadFiles
  /\ phase = "start"
  /\ gen = "none"
  /\ environ = NoEnviron
  /\ attempted = <<>>
  /\ cache = FALSE
  /\ changed = FALSE
  /\ auth = NewAuthObject(FALSE, FALSE)
  /\ facade = NoFacade
  /\ prov = NoProv
  /\ args = NoArgs
  /\ nextId = 0
  /\ last = NoCall
  /\ save = NoSave
  /\ threads = NoThreads
  /\ load = NoLoad
  /\ blobstore = "None"
  /\ umask = "022"
  /\ umask0 = umask
  /\ writers = NoWriters
  /\ attempt = NoAttempt

LoadStep(l) ==
  /\ load' = l
  /\ UNCHANGED <<now, platform, attempt, umask, umask0, writers, blobstore, phase, gen, environ, attempted, cache, changed,
                 auth, facade, prov, args, nextId, last, save, threads>>

LoadFinished == load.pc \in {"done", "failed"}

\* Auth._get_cache with _cache_available and _read_cache: only reads the file
LoadAuth ==
  \E readable \in BOOLEAN :
    /\ load.pc = "idle"
    /\ LoadStep(
         LET l == [load EXCEPT !.who = "Auth", !.before = fs]
         IN IF ~fs.exists THEN [l EXCEPT !.pc = "done"]
            ELSE IF ~readable THEN [l EXCEPT !.pc = "failed", !.exc = "PermissionError"]
            ELSE IF ~Deserializes(fs.content)
            THEN [l EXCEPT !.pc = "failed", !.exc = "JSONDecodeError",
                           !.token = fs.content]
            ELSE [l EXCEPT !.pc = "done", !.token = fs.content,
                           !.accounts = fs.content = "acct"])
    /\ UNCHANGED fs

\* get_token_cache and the same statements in NewAuth.__init__, up to
\* os.path.exists(token_path).  On Linux the PersistedTokenCache is built
\* without touching the file
LoadEnter ==
  /\ load.pc = "idle"
  /\ LoadStep([load EXCEPT !.who = "get_token_cache", !.before = fs,
                           !.pc = IF IsLinux(platform) \/ ~fs.exists THEN "done"
                                  ELSE "encrypted_load"])
  /\ UNCHANGED fs

\* token = encrypted_persistence.load(); except Exception: ...
LoadEncrypted ==
  /\ load.pc = "encrypted_load"
  /\ LoadStep(IF fs.content \in EncryptedContents
              THEN [load EXCEPT !.pc = "done", !.token = fs.content]
              ELSE [load EXCEPT !.pc = "plain_load"])
  /\ UNCHANGED fs

\* token = FilePersistence(token_path).load()
LoadPlain ==
  \E readable \in BOOLEAN :
    /\ load.pc = "plain_load"
    /\ LoadStep(IF readable
                THEN [load EXCEPT !.pc = "truncate", !.token = fs.content]
                ELSE [load EXCEPT !.pc = "failed", !.exc = "PermissionError"])
    /\ UNCHANGED fs

\* with open(token_path, "w") as f: f.truncate()
LoadTruncate ==
  /\ load.pc = "truncate"
  /\ fs' = [fs EXCEPT !.content = "empty"]
  /\ LoadStep([load EXCEPT !.pc = "encrypted_save"])

\* encrypted_persistence.save(token): the platform's encryption can refuse
LoadEncryptedSave ==
  \E ok \in BOOLEAN :
    /\ load.pc = "encrypted_save"
    /\ IF ok
       THEN /\ fs' = [fs EXCEPT !.content = Encrypt(load.token)]
            /\ LoadStep([load EXCEPT !.pc = "done"])
       ELSE /\ UNCHANGED fs
            /\ LoadStep([load EXCEPT !.pc = "failed",
                                     !.exc = "PersistenceEncryptionError"])

NextLoad ==
  \/ LoadAuth
  \/ LoadEnter
  \/ LoadEncrypted
  \/ LoadPlain
  \/ LoadTruncate
  \/ LoadEncryptedSave

SpecLoad == InitLoad /\ [][NextLoad]_vars

\* ================================================================= claims
\* the strategy get_auth_provider chose
Chosen == attempted[Len(attempted)]
Selected == gen = "AuthProvider" /\ Len(attempted) > 0

\* C1 as stated: get_auth_provider chooses Managed if and only if all four
\* managed-identity variables are set, else RefreshToken if a refresh token
\* is supplied, else AccessToken if an access token is supplied, else
\* Interactive if the flag is set, else DeviceCode; one strategy only.
\* A variable is set when os.getenv does not return None; a token is
\* supplied when it is a non-empty string.
C1_AsStated ==
  Selected =>
    LET managed == \A x \in ManagedVars : environ[x] # None
        refresh == TruthyTok(args.refresh_token)
        access == TruthyTok(args.access_token)
    IN /\ Len(attempted) = 1
       /\ Chosen = (IF managed THEN "Managed"
                    ELSE IF refresh THEN "RefreshToken"
                    ELSE IF access THEN "AccessToken"
                    ELSE IF args.interactive THEN "Interactive"
                    ELSE "DeviceCode")

\* C1 amended: Managed if and only if all four variables are set to a
\* non-empty value (a variable set to "" counts as unset), else RefreshToken
\* if a refresh token is supplied, else AccessToken if an access token is
\* supplied, else Interactive if the flag is set, else DeviceCode; exactly
\* one strategy's constructor is entered.
C1_Selection ==
  Selected =>
    LET managed == \A x \in ManagedVars : environ[x] \notin {None, ""}
        refresh == args.refresh_token.kind \in {"opaque", "jwt"}
        access == args.access_token.kind \in {"opaque", "jwt"}
    IN /\ Len(attempted) = 1
       /\ (Chosen = "Managed") <=> managed
       /\ (Chosen = "RefreshToken") <=> (~managed /\ refresh)
       /\ (Chosen = "AccessToken") <=> (~managed /\ ~refresh /\ access)
       /\ (Chosen = "Interactive") <=>
            (~managed /\ ~refresh /\ ~access /\ args.interactive)
       /\ (Chosen = "DeviceCode") <=>
            (~managed /\ ~refresh /\ ~access /\ ~args.interactive)

\* all four variables are set, one of them to "", both tokens are supplied
\* and the refresh token wins
C1_Witness ==
  /\ Selected
  /\ \A x \in ManagedVars : environ[x] # None
  /\ \E x \in ManagedVars : environ[x] = ""
  /\ args.refresh_token = OpaqueTok
  /\ args.access_token.kind = "jwt"
  /\ Chosen = "RefreshToken"

\* a call that asks the session for its token: no token came from the caller
SessionCall(l) == l.op = "get_token" /\ l.given = NoneTok

\* C2 as stated: no token-returning operation returns an access token whose
\* expiry has passed, whether the token came from the provider or from the
\* caller.
C2_NeverExpired ==
  (last.op \in {"get_token", "get_bearer_token"} /\ last.outcome = "return"
     /\ last.value.tok.kind = "jwt")
  => now < last.value.tok.exp

\* C3: a get_token call on a session whose stored expiry has not passed
\* returns the token the session holds, which is the token the call before
\* it returned, and acquires nothing: no provider call, no cache write, no
\* change of the stored token or expiry.  Every successful call returns the
\* token the session holds afterwards, so two such calls in a row return the
\* same string.
C3_NoSecondAcquisition ==
  [][(SessionCall(last') /\ auth.has_expiring_date) =>
       /\ last'.outcome = "return" => last'.value.tok = auth'.result.tok
       /\ ~last'.expired =>
            /\ last'.outcome = "return"
            /\ last'.value.tok = auth.result.tok
            /\ last'.acts = Acts
            /\ auth' = auth /\ fs' = fs /\ cache' = cache /\ facade' = facade
            /\ nextId' = nextId]_vars

\* a call at the stored expiry itself, some time after the token was acquired
C3_Witness ==
  /\ SessionCall(last) /\ ~last.expired /\ last.outcome = "return"
  /\ gen = "CallAzureApi"
  /\ now = auth.expiring_date
  /\ last.value = Bearer(auth.result.tok)

C6_SuppliedAccessToken ==
  (last.op = "get_token" /\ gen \in {"AuthProvider", "SumoClient"}
     /\ last.given.kind = "jwt")
  => IF now < last.given.exp
     THEN last.outcome = "return" /\ last.value = Plain(last.given)
     ELSE /\ last.outcome = "raise"
          /\ last.acts = Acts
          /\ gen = "SumoClient" => facade.access_token = last.given
          /\ gen = "AuthProvider" => prov.access_token = last.given

\* C7 as stated: constructing an Interactive or DeviceCode provider starts
\* no login flow when the cache gives a token, and starts the login flow
\* exactly once when it gives none (no cached account, or a silent
\* acquisition that yields nothing).
C7_LoginOnMiss ==
  (Selected /\ last.op = "get_auth_provider"
     /\ Chosen \in {"Interactive", "DeviceCode"})
  => IF last.acts.silent = 1 /\ phase = "ready"
     THEN last.acts.flows = 0
     ELSE last.acts.flows = 1

\* C8 as stated: constructing the RefreshToken strategy exchanges the
\* refresh token exactly once, and the construction fails whenever the
\* exchange returns an error (the cache then holds no account).
C8_ExchangeChecked ==
  (Selected /\ last.op = "get_auth_provider" /\ Chosen = "RefreshToken")
  => /\ last.acts.exchange = 1
     /\ ~cache => phase = "failed"

\* C9 as stated: when a device-code acquisition yields no access token, the
\* construction of the session fails and no cache file is written.
C9_DeviceCodeFailure ==
  (last.op = "Auth.__init__" /\ last.acts.flows > 0 /\ auth.result.kind # "token")
  => phase = "failed" /\ last.acts.writes = 0

\* C10 as stated: a SumoClient built with a token that is no JWT holds it as
\* a refresh token, and every later retrieval obtains an access token by
\* exchanging it.
C10_RefreshTokenClient ==
  (gen = "SumoClient" /\ args.token = OpaqueTok)
  => /\ facade.refresh_token = OpaqueTok
     /\ last.op = "get_token" =>
          /\ last.acts.exchange = 1
          /\ last.exc \in {"", "ValueError"}

C15_NoIdleWrite == last.acts.idle = 0

\* C13 as stated: on POSIX, after a successful cache save or token
\* acquisition (Auth._write_cache, NewAuth.get_token, the device-code login
\* that ends with protect_token_cache) the token file has mode 0600 and its
\* directory mode 0700, whatever the modes were before.
C13_ModesAfterSave ==
  (/\ ~IsWin(platform)
   /\ last.outcome = "return"
   /\ \/ last.acts.writes > 0 /\ gen \in {"Auth", "CallAzureApi", "LegacySumoClient"}
      \/ last.op = "get_token" /\ gen \in {"NewAuth", "SumoClient"} /\ facade.has_auth
      \/ last.op = "login" /\ prov.strategy = "DeviceCode")
  => fs.mode = "0600" /\ fs.dirmode = "0700"

\* C14 as stated: at every intermediate step of a save, also when the token
\* file existed before with group or other permission bits, the file is not
\* accessible to group or others while it holds the newly written
\* credential material (POSIX).
C14_NeverExposed ==
  (~IsWin(platform) /\ save.pc \in {"written", "chmod", "chmoddir", "done"})
  => ~GroupOther(fs.mode)

\* C12 as stated: when get_token is called concurrently on one session,
\* every caller returns the token held before a refresh or a token a refresh
\* produced, and no caller fails only because another caller's refresh
\* overwrote the shared result: a caller that fails has failed in its own
\* refresh.
C12_ConcurrentCallers ==
  \A th \in Threads :
    threads[th].pc = "done" =>
      IF threads[th].exc = ""
      THEN threads[th].value.kind = "jwt"
      ELSE threads[th].own \in {"raised", "error", "empty", "None"}
             \/ threads[th].exc = "AttributeError"

\* C16 as stated: loading the cache when no token file exists gives an empty
\* cache and no error; loading a token file whose text does not deserialize
\* fails that call with an error and leaves the file as it was.
C16_LoadOutcome ==
  (LoadFinished /\ load.who # "none") =>
    /\ ~load.before.exists =>
         load.pc = "done" /\ ~load.accounts /\ fs = load.before
    /\ (load.before.exists /\ load.token = "corrupt") =>
         load.pc = "failed" /\ fs = load.before

\* C17 as stated: the system never deletes or empties an existing token
\* file: when a load has finished, with or without the migration to
\* encrypted storage and also when the migration failed midway, a file that
\* held something still exists and is not empty.
C17_NeverEmptied ==
  (LoadFinished /\ load.before.exists /\ load.before.content # "empty")
  => fs.exists /\ fs.content # "empty"

\* C18 as stated: constructing a session registers an exit hook, and at
\* process exit the token cache is flushed exactly once, on normal and on
\* error exit paths, even if the caller never saved explicitly.
C18_FlushAtExit ==
  (last.op = "exit" /\ gen \in {"Auth", "NewAuth"}) => last.acts.writes = 1

\* ------------------------------------------------------------------- C19
\* the last call was a verb of the current or of the legacy SumoClient
VerbCall == last.op \in SyncVerbs \cup AsyncVerbs
ClientVerbCall == VerbCall /\ gen \in {"SumoClient", "LegacySumoClient"}

\* the token the caller gave the client at construction
SuppliedToken ==
  IF gen = "SumoClient" THEN facade.access_token ELSE facade.user_token

\* the token carried is the session's: the caller's own token when one was
\* supplied, else the one the legacy client holds after the call, else (the
\* current client keeps no copy) the latest token the provider issued
CarriesSessionToken ==
  IF TruthyTok(SuppliedToken) THEN last.sent.tok = SuppliedToken
  ELSE IF gen = "LegacySumoClient"
  THEN last.sent.tok = facade.access_token /\ last.sent.tok = auth.result.tok
  ELSE /\ last.sent.tok.kind = "jwt"
       /\ last.sent.tok.id = nextId
       /\ last.acts.silent + last.acts.flows + last.acts.exchange > 0

\* C19: every request of get, post, put and delete, sync and async, is
\* issued after the token was obtained from the session and carries
\* Authorization: Bearer <that token>; when the token retrieval fails no
\* HTTP request is issued.
C19_BearerOnEveryRequest ==
  ClientVerbCall =>
    /\ last.acts.http > 0 =>
         /\ last.acts.http = 1
         /\ last.log = <<"token", "request">>
         /\ last.sent.scheme = "Bearer"
         /\ CarriesSessionToken
    /\ last.log = <<>> =>
         /\ last.outcome = "raise"
         /\ last.acts.http = 0
         /\ last.sent = NoHeader

\* an asynchronous post that logged in first, then sent the fresh token
C19_Witness ==
  /\ gen = "SumoClient"
  /\ last.op = "post_async"
  /\ last.outcome = "return"
  /\ last.acts.flows = 1
  /\ last.acts.http = 1
  /\ last.sent = Bearer(Jwt(nextId, now + (THRESHOLD + 1) * TPS))

\* ------------------------------------------------------------------- C20
\* the last call was a post or put given both a blob and a json payload
BothPayloads ==
  /\ VerbCall
  /\ IsPost(last.op) \/ IsPut(last.op)
  /\ TruthyPayload(last.blob) /\ TruthyPayload(last.json)

\* C20: post and put, sync and async, in every client generation, called
\* with both a binary and a structured payload fail with ValueError and
\* without any side effect: no HTTP request, no call to the identity
\* provider, no change to the token cache file or its permissions.
C20_BothPayloadsRejected ==
  BothPayloads =>
    /\ last.outcome = "raise"
    /\ last.exc = "ValueError"
    /\ last.acts.http = 0
    /\ last.acts.silent + last.acts.flows + last.acts.exchange = 0
    /\ last.acts.writes = 0
    /\ ~last.touched

\* ------------------------------------------------------------------- C21
\* the last call was a verb or a blob upload
RequestCall == last.op \in SyncVerbs \cup AsyncVerbs \cup BlobVerbs

\* the kind of error the taxonomy gives a status code
ExpectedKind(code) ==
  IF code \in {404, 500, 503, 504} THEN "TransientError"
  ELSE IF code \in {401, 402, 403} THEN "AuthenticationError"
  ELSE "PermanentError"

\* C21: every error status code is classified as exactly one kind,
\* Transient for 404, 500, 503 and 504, Authentication for 401, 402 and 403,
\* Permanent for every other 4xx and 5xx code; every verb and upload_blob
\* raises that kind for an error response and returns no result for it.
C21_Classification ==
  /\ phase = "start" =>
       \A code \in 400..599 : raise_request_error_exception(code) = ExpectedKind(code)
  /\ (RequestCall /\ last.status >= 400) =>
       /\ last.outcome = "raise"
       /\ last.exc = ExpectedKind(last.status)
       /\ last.result = "none"

\* the server answers 503 to a delete and the caller sees a TransientError
C21_Witness ==
  /\ gen = "SumoClient"
  /\ last.op = "delete"
  /\ last.status = 503
  /\ last.outcome = "raise"
  /\ last.exc = "TransientError"

\* ------------------------------------------------------------------- C22
\* the request of the last call met a transport exception instead of a
\* response
TransportFailed == RequestCall /\ last.acts.http > 0 /\ last.status = 0

\* C22: a proxy or connection failure at the network level during any verb
\* or blob upload reaches the caller as a Transient error (synthetic
\* status 503), never as the transport's own exception.
C22_TransportIsTransient ==
  TransportFailed =>
    /\ last.outcome = "raise"
    /\ last.exc = raise_request_error_exception(503)
    /\ last.exc = "TransientError"

\* ------------------------------------------------------------------- C23
\* exactly one of the two payloads was given
OnePayload(blob, json) == (blob = "None") # (json = "None")

\* the Content-Type the payload calls for
ExpectedContentType(blob, json) ==
  IF json # "None" THEN "application/json" ELSE "application/octet-stream"

\* C23: for post and put called with exactly one payload, Content-Type is
\* application/json if and only if the payload is structured and
\* application/octet-stream if and only if it is binary, and post and put
\* choose the same Content-Type for the same payload.
C23_ContentType ==
  /\ phase = "start" =>
       \A blob \in Payloads, json \in Payloads :
         OnePayload(blob, json) =>
           content_type_post(blob, json) = content_type_put(blob, json)
  /\ (/\ RequestCall
      /\ IsPost(last.op) \/ IsPut(last.op)
      /\ OnePayload(last.blob, last.json)
      /\ last.acts.http > 0)
       => last.ctype = ExpectedContentType(last.blob, last.json)

\* ------------------------------------------------------------------- C24
\* a put of CallAzureApi that issued its request
AzurePutSent == gen = "CallAzureApi" /\ IsPut(last.op) /\ last.acts.http > 0

\* an upload of BlobClient that issued its request
BlobUploadSent == last.op \in BlobVerbs /\ last.acts.http > 0

\* C24: CallAzureApi.put omits the Authorization header exactly when the url
\* contains "sig=" and sends the bearer string otherwise; BlobClient.upload_blob
\* and upload_blob_async never send an Authorization header.
C24_AuthorizationUnlessSigned ==
  /\ AzurePutSent =>
       /\ last.sent = NoHeader <=> last.target = "sig"
       /\ last.target # "sig" =>
            /\ last.sent.scheme = "Bearer"
            /\ TruthyTok(last.sent.tok)
  /\ BlobUploadSent => last.sent = NoHeader

\* a put to a signed url went out without the header
C24_Witness ==
  /\ AzurePutSent
  /\ last.target = "sig"
  /\ last.sent = NoHeader
  /\ last.outcome = "return"

\* ------------------------------------------------------------------- C25
\* a get, of any client, that returned
GetReturned ==
  RequestCall /\ IsGet(last.op) /\ last.acts.http > 0 /\ last.outcome = "return"

\* a get of the object's blob that the store answered with 200
BlobGetAnswered ==
  RequestCall /\ IsGet(last.op) /\ last.target = "blob" /\ last.status = 200

AsyncCall == last.op \in AsyncVerbs \cup {"upload_blob_async"}

\* what the caller of the last verb has seen of it
Seen ==
  [outcome |-> last.outcome, exc |-> last.exc, result |-> last.result,
   http |-> last.acts.http, sent |-> last.sent, ctype |-> last.ctype,
   status |-> last.status, content |-> last.content]

\* C26: each async verb (get_async, post_async, put_async, delete_async,
\* upload_blob_async) builds the same headers, issues the same requests and
\* ends as its sync counterpart does for the same input, the same token
\* retrieval and the same responses.
C26_AsyncAsSync == AsyncCall => Seen = last.twin

\* ------------------------------------------------------------------- C27
\* an update was called with neither an object id nor a url
UpdateWithNeither ==
  /\ last.op \in UpdateVerbs
  /\ ~Given(last.object_id)
  /\ ~Given(last.url)

\* C27: update_top_level_json and update_child_level_json called with
\* neither an object id nor a url raise ValueError at once: no token is
\* processed or acquired, no request is issued and nothing is written.
C27_UpdateNeedsIdOrUrl ==
  UpdateWithNeither =>
    /\ last.outcome = "raise"
    /\ last.exc = "ValueError"
    /\ last.acts = Acts
    /\ last.log = <<>>
    /\ ~last.touched
    /\ last.sent = NoHeader

\* the update was refused while the session's token had expired and no
\* bearer was passed: a later step would have asked the provider
C27_Witness ==
  /\ UpdateWithNeither
  /\ last.op = "update_child_level_json"
  /\ last.expired
  /\ last.given = NoneTok
  /\ last.exc = "ValueError"

\* ------------------------------------------------------------------- C28
\* a client was constructed for an environment the registry does not have
UnknownEnv ==
  /\ last.op \in {"SumoClient.__init__", "SumoAggregationClient.__init__",
                  "CallSumoApi.__init__"}
  /\ last.env \notin APP_REGISTRATION

\* C28: constructing SumoClient, SumoAggregationClient or CallSumoApi with
\* an environment that is not in the registry fails with ValueError before a
\* credential object is created, the cache file is read or a request is
\* issued.
C28_UnknownEnvRejected ==
  UnknownEnv =>
    /\ last.outcome = "raise"
    /\ last.exc = "ValueError"
    /\ last.acts = Acts
    /\ ~last.touched
    /\ ~facade.has_auth
    /\ phase = "failed"

\* ------------------------------------------------------------------- C29
\* emit was called
EmitCall == last.op = "emit"

\* C29: LogHandlerSumo.emit never raises: whatever fails while the record
\* is built, the token is retrieved or the record is posted, emit returns.
C29_EmitNeverRaises == EmitCall => last.outcome = "return" /\ last.exc = ""

\* the post inside emit was answered with 500 and emit returned
C29_Witness ==
  /\ EmitCall
  /\ last.acts.http = 1
  /\ last.status = 500
  /\ last.log[Len(last.log)] = "except TransientError"
  /\ last.outcome = "return"

\* ------------------------------------------------------------------- C30
\* a get_token on an expired session failed
FailedRefresh == SessionCall(last) /\ last.expired /\ last.outcome = "raise"

\* a get_token returned a token that has not expired
ValidToken ==
  /\ SessionCall(last)
  /\ last.outcome = "return"
  /\ last.value.tok.kind = "jwt"
  /\ now < last.value.tok.exp

\* every call on an expired session asks the provider; a call that failed
\* leaves the session expired; a call that succeeded returns the token just
\* issued and has stored its expiry
RetryStep ==
  /\ (SessionCall(last) /\ last.expired) => last.acts.silent = 1
  /\ FailedRefresh => StoredExpired
  /\ (SessionCall(last) /\ last.expired /\ last.outcome = "return") =>
       /\ last.value.tok = auth.result.tok
       /\ last.value.tok # last.held
       /\ auth.expiring_date = now + (auth.result.expires_in - THRESHOLD) * TPS

\* C30: a failed silent refresh is not sticky: after get_token fails on an
\* expired session the session remains expired, each later get_token makes a
\* new acquisition attempt, and the first attempt that succeeds returns the
\* new token and stores a new expiry; when the caller keeps calling and the
\* provider does not refuse for ever, a failed refresh is followed by a call
\* that returns a valid token.
C30_RefreshNotSticky == []RetryStep /\ (FailedRefresh ~> ValidToken)

\* a call on an expired session whose last acquisition had failed returned a
\* new, valid token
C30_Witness ==
  /\ ValidToken
  /\ last.expired
  /\ last.held = NoneTok
  /\ last.acts.silent = 1
  /\ auth.result.tok = last.value.tok

\* ------------------------------------------------------------------- C31
\* Auth construction has just completed without raising
AuthConstructed ==
  gen = "Auth" /\ last.op = "Auth.__init__" /\ last.outcome = "return"

\* C31: whenever Auth construction completes without raising, the session
\* holds an access token together with its expiry, and a get_token call on
\* the session never fails with a missing-attribute or missing-key failure.
C31_ConstructedHoldsToken ==
  /\ AuthConstructed =>
       /\ auth.result.kind = "token"
       /\ auth.has_expiring_date
  /\ (gen = "Auth" /\ last.op = "get_token") =>
       last.exc \notin {"AttributeError", "KeyError"}

\* ------------------------------------------------------------------- C32
\* an Auth session exists
AuthSession == gen = "Auth" /\ phase = "ready"

\* C32: in every state of an Auth session, during and after concurrent
\* refreshes, the stored expiry belongs to the acquisition of the stored
\* result: with a token stored the expiry is the token's own minus the
\* threshold, and with an error result stored the expiry does not say that
\* the token is still valid.
C32_ExpiryOfStoredResult ==
  (AuthSession /\ auth.has_expiring_date) =>
    /\ auth.result.kind = "token" =>
         auth.expiring_date = auth.result.tok.exp - THRESHOLD * TPS
    /\ auth.result.kind # "token" => is_token_expired(auth, now)

\* ------------------------------------------------------------------- C33
\* a step that is a whole Auth construction
AuthConstruction ==
  phase = "start" /\ phase' # "start" /\ gen' = "Auth"
    /\ last'.op = "Auth.__init__"

\* the silent acquisition of the construction did not return True: it
\* returned False or it raised
SilentFailed ==
  \/ ~last'.ret
  \/ last'.exc \in {"SystemError", "TypeError", "FileNotFoundError", "IndexError"}

\* the silent acquisition of the construction returned False
SilentReturnedFalse == ~last'.ret

\* the cache file holds an account
HasAccounts == fs.exists /\ fs.content = "acct"

\* C33: during Auth construction a device-code flow is started if and only
\* if no cache file exists, or writeback is enabled and either the cache has
\* no accounts or silent acquisition failed; with a cache file without
\* accounts and writeback disabled construction raises RuntimeError and
\* starts no flow; at most one flow is started per construction.
C33_FlowStartedIff ==
  [][AuthConstruction =>
       /\ last'.acts.flows >= 1 <=>
            \/ ~fs.exists
            \/ auth'.writeback /\ (~HasAccounts \/ SilentFailed)
       /\ (fs.exists /\ ~HasAccounts /\ ~auth'.writeback) =>
            last'.exc = "RuntimeError" /\ last'.acts.flows = 0
       /\ last'.acts.flows <= 1]_vars

\* the same with a failed silent acquisition read as one that returned False
C33_FlowStartedIffReturnedFalse ==
  [][AuthConstruction =>
       /\ last'.acts.flows >= 1 <=>
            \/ ~fs.exists
            \/ auth'.writeback /\ (~HasAccounts \/ SilentReturnedFalse)
       /\ (fs.exists /\ ~HasAccounts /\ ~auth'.writeback) =>
            last'.exc = "RuntimeError" /\ last'.acts.flows = 0
       /\ last'.acts.flows <= 1]_vars

\* ------------------------------------------------------------------- C34
\* the owner or another process changes the mode of the token file between
\* two calls; os.stat in _check_token_security reads whatever mode is there
Chmod ==
  /\ phase \in {"start", "ready"}
  /\ fs.exists
  /\ \E md \in FileModes : md # fs.mode /\ fs' = [fs EXCEPT !.mode = md]
  /\ last' = NoCall
  /\ UNCHANGED <<now, platform, attempt, umask, umask0, writers, blobstore, phase, gen, environ, attempted, cache,
                 changed, auth, facade, prov, args, nextId, save, threads, load>>

NextSecurity ==
  \/ ConstructAuth
  \/ GetToken
  \/ Chmod
  \/ Advance

SpecSecurity == Init /\ [][NextSecurity]_vars

\* on POSIX the token file is open to group or others
Exposed == IsLinux(platform) /\ fs.exists /\ GroupOther(fs.mode)

\* a step that is a call of Auth
AuthCall == gen' = "Auth" /\ last'.op \in {"Auth.__init__", "get_token"}

\* the call enters _oauth_get_token_silent: construction with accounts in
\* the cache file, or get_token after the stored expiry
EntersSilent ==
  \/ last'.op = "Auth.__init__" /\ HasAccounts
  \/ last'.op = "get_token" /\ auth.has_expiring_date
       /\ is_token_expired(auth, now)

\* C34: on POSIX Auth never asks the provider for a silent token while the
\* token file is readable, writable or executable by group or others:
\* _oauth_get_token_silent raises SystemError before the provider call and
\* leaves the held token, the stored expiry and the cache file unchanged.
C34_NoSilentWhileExposed ==
  [][(Exposed /\ AuthCall) =>
       /\ last'.acts.silent = 0
       /\ EntersSilent =>
            /\ last'.outcome = "raise" /\ last'.exc = "SystemError"
            /\ auth'.result = auth.result
            /\ auth'.has_expiring_date = auth.has_expiring_date
            /\ auth'.expiring_date = auth.expiring_date
            /\ fs' = fs]_vars

\* get_token on a session that holds a token met an exposed token file
C34_Witness ==
  /\ Exposed /\ gen = "Auth" /\ last.op = "get_token"
  /\ last.exc = "SystemError" /\ last.expired
  /\ auth.result.kind = "token" /\ last.acts.silent = 0

\* ------------------------------------------------------------------- C35
\* the three classes that run a device-code flow
NextDevice ==
  \/ ConstructAuth
  \/ ConstructAuthProvider
  \/ ConstructNewAuth
  \/ ProviderLogin
  \/ NewAuthGetToken
  \/ Advance

SpecDevice == Init /\ [][NextDevice]_vars

\* the steps of the device-code flows of the call that has just ended
FlowLog == last.flowlog

\* C35: in every device-code flow of Auth, NewAuth and
\* AuthProviderDeviceCode the instructions are emitted exactly once, after
\* the flow payload was obtained and before polling starts; if creating the
\* flow fails nothing is emitted, polling never starts and the error that
\* carries the provider's payload (ValueError) is raised.
C35_InstructionsOnceBeforePolling ==
  \A i \in 1..Len(FlowLog) :
    /\ FlowLog[i] = "flow" =>
         /\ i + 2 <= Len(FlowLog)
         /\ FlowLog[i + 1] = "print" /\ FlowLog[i + 2] = "poll"
    /\ FlowLog[i] = "refused" =>
         /\ i = Len(FlowLog)
         /\ last.outcome = "raise" /\ last.exc = "ValueError"
    /\ FlowLog[i] = "print" => i > 1 /\ FlowLog[i - 1] = "flow"
    /\ FlowLog[i] = "poll" => i > 1 /\ FlowLog[i - 1] = "print"

\* a flow that was created, printed and polled, and one that was not created
C35_Witness ==
  /\ gen \in {"Auth", "NewAuth", "AuthProvider"}
  /\ FlowLog = <<"flow", "print", "poll">>
  /\ last.outcome = "return"

\* ------------------------------------------------------------------- C36
\* Auth._write_cache called by the threads of one process, each once.  The
\* session has writeback enabled; the process starts with any mask.
InitMask ==
  /\ now = 0
  /\ platform \in Platforms
  /\ fs \in FileStates
  /\ (~IsWin(platform) /\ fs.exists /\ GroupOther(fs.mode)) => fs.content = "noacct"
  /\ phase = "ready"
  /\ gen = "Auth"
  /\ environ = NoEnviron
  /\ attempted = <<>>
  /\ cache = TRUE
  /\ changed = TRUE
  /\ auth = NewAuthObject(TRUE, cache)
  /\ facade = NoFacade
  /\ prov = NoProv
  /\ args = NoArgs
  /\ nextId = 0
  /\ last = NoCall
  /\ save = NoSave
  /\ threads = NoThreads
  /\ load = NoLoad
  /\ blobstore = "None"
  /\ umask \in Masks
  /\ umask0 = umask
  /\ writers = NoWriters
  /\ attempt = NoAttempt

WriterStep(th, pc) ==
  /\ writers' = [writers EXCEPT ![th].pc = pc]
  /\ UNCHANGED <<now, platform, attempt, blobstore, phase, gen, environ, attempted, cache,
                 auth, facade, prov, args, nextId, last, save, threads, load,
                 umask0>>

\* old_mask = os.umask(0o077)
WriterEnter(th) ==
  /\ writers[th].pc = "idle"
  /\ writers' = [writers EXCEPT ![th] = [pc |-> "entered", old_mask |-> umask]]
  /\ umask' = "077"
  /\ UNCHANGED <<now, platform, attempt, blobstore, fs, phase, gen, environ, attempted,
                 cache, changed, auth, facade, prov, args, nextId, last, save,
                 threads, load, umask0>>

\* os.makedirs, open, file.write and the two os.chmod
WriterWrite(th) ==
  /\ writers[th].pc = "entered"
  /\ fs' = write_cache(Cur.m, platform).fs
  /\ changed' = FALSE
  /\ WriterStep(th, "written")
  /\ UNCHANGED umask

\* os.makedirs, open, file.write or os.chmod raises OSError (the directory
\* or the file is not writable, the disk is full): nothing catches it and
\* os.umask(old_mask) is not reached
WriterFail(th) ==
  /\ writers[th].pc = "entered"
  /\ WriterStep(th, "raised")
  /\ UNCHANGED <<fs, changed, umask>>

\* os.umask(old_mask)
WriterLeave(th) ==
  /\ writers[th].pc = "written"
  /\ umask' = writers[th].old_mask
  /\ WriterStep(th, "done")
  /\ UNCHANGED <<fs, changed>>

WriteCacheEnter == \E th \in Threads : WriterEnter(th)
WriteCacheWrite == \E th \in Threads : WriterWrite(th)
WriteCacheFail == \E th \in Threads : WriterFail(th)
WriteCacheLeave == \E th \in Threads : WriterLeave(th)

NextMask ==
  \/ WriteCacheEnter
  \/ WriteCacheWrite
  \/ WriteCacheFail
  \/ WriteCacheLeave

SpecMask == InitMask /\ [][NextMask]_vars

\* no _write_cache call is running and at least one has finished
WritersFinished ==
  /\ \A th \in Threads : writers[th].pc \in {"idle", "done", "raised"}
  /\ \E th \in Threads : writers[th].pc \in {"done", "raised"}

\* C36: after every Auth._write_cache call has finished, whether it returned
\* or raised and in any interleaving of concurrent calls, the file-creation
\* mask of the process equals the value it had before the first call.
C36_MaskRestored == WritersFinished => umask = umask0

\* the same when every call returned
C36_MaskRestoredOnReturn ==
  (WritersFinished /\ \A th \in Threads : writers[th].pc # "raised")
    => umask = umask0

\* a call that ran alone and returned has restored the mask
C36_MaskRestoredAlone ==
  (\E th \in Threads :
     /\ writers[th].pc = "done"
     /\ \A o \in Threads \ {th} : writers[o].pc = "idle")
    => umask = umask0

\* ------------------------------------------------------------------- C37
\* a CallAzureApi (or the one a CallSumoApi holds) that built its session
OwnSession == gen = "CallAzureApi" /\ facade.has_auth

\* the call that has just ended acquired a token silently
SilentAcquired ==
  last.acts.silent >= 1 /\ last.acts.flows = 0 /\ last.outcome = "return"

\* C37: the writeback setting given to CallSumoApi / CallAzureApi is the
\* writeback setting of the Auth session it creates: with writeback=True
\* every successful silent acquisition writes the cache file and a cache
\* file without accounts leads to the device-code flow instead of
\* RuntimeError; with writeback=False neither happens.
C37_WritebackReachesAuth ==
  /\ OwnSession => auth.writeback = facade.writeback
  /\ (OwnSession /\ SilentAcquired) =>
       (last.acts.writes >= 1 <=> facade.writeback)
  /\ (gen = "CallAzureApi" /\ last.exc = "RuntimeError") => ~facade.writeback

\* what holds instead: the session never has writeback
C37_WritebackNeverSet ==
  /\ OwnSession => ~auth.writeback
  /\ (OwnSession /\ SilentAcquired) => last.acts.writes = 0

\* ------------------------------------------------------------------- C38
\* what SumoClient.post or put does with the payloads of the last call,
\* once the token has been retrieved, when the server answers 200
OnPayloads(verb) ==
  sumo_client_verb(Return(Cur.m, Plain(OpaqueTok)), verb, last.blob, last.json,
                   "plain", Reply("response", 200), Reply("response", 200))

\* SumoClient.post or put was called and got its token
PostOrPut ==
  /\ gen = "SumoClient" /\ last.op \in {"post", "put"}
  /\ Len(last.log) > 0

\* C38: post and put accept the same payload combinations: for every
\* combination of blob and json (neither, only blob, only json including
\* the empty structure, both) they either both issue a request or both fail
\* before issuing one, with the same kind of error.
C38_PostPutSamePayloads ==
  PostOrPut =>
    /\ (last.acts.http > 0) = (OnPayloads(last.op).acts.http > 0)
    /\ (OnPayloads("post").acts.http > 0) = (OnPayloads("put").acts.http > 0)
    /\ OnPayloads("post").acts.http = 0 =>
         OnPayloads("post").exc = OnPayloads("put").exc

\* the same for the combinations in which a payload that is true in Python
\* is given
C38_PostPutSameNonEmpty ==
  (PostOrPut /\ (TruthyPayload(last.blob) \/ TruthyPayload(last.json))) =>
    /\ (last.acts.http > 0) = (OnPayloads(last.op).acts.http > 0)
    /\ (OnPayloads("post").acts.http > 0) = (OnPayloads("put").acts.http > 0)
    /\ OnPayloads("post").acts.http = 0 =>
         OnPayloads("post").exc = OnPayloads("put").exc

\* ------------------------------------------------------------------- C39
\* the attempts that are counted one by one; the count stays at MaxAttempts
\* for every attempt after it
MaxAttempts == 8

\* how one attempt of the wrapped function can end: an exception, or a
\* response with a status code.  ConnectTimeout is a TimeoutException;
\* KeyboardInterrupt is a BaseException that is not an Exception.
Exceptions ==
  {"ConnectTimeout", "ConnectError", "HTTPStatusError", "KeyboardInterrupt"}
Statuses == {200, 404, 502, 503, 504}
Outcomes ==
  {[exc |-> e, status |-> 0] : e \in Exceptions}
    \cup {[exc |-> "", status |-> c] : c \in Statuses}

\* is_retryable_exception: isinstance(exception, (httpx.TimeoutException,
\* httpx.ConnectError))
is_retryable_exception(exception) ==
  exception \in {"ConnectTimeout", "ConnectError"}

\* is_retryable_status_code
is_retryable_status_code(status_code) == status_code \in {502, 503, 504}

\* stop=tn.stop_after_attempt(6)
StopAfterAttempt == 6

\* a retry policy: "stop" is the attempt number after which no attempt is
\* made (0 for never), "exceptions" and "statuses" the outcomes that are
\* retried.  Retrying() without arguments: stop_never and
\* retry_if_exception_type(), which retries after every Exception.
DefaultPolicy ==
  [stop |-> 0, exceptions |-> Exceptions \ {"KeyboardInterrupt"}, statuses |-> {}]

\* the policy written in http_retry's keyword arguments
KeywordPolicy ==
  [stop |-> StopAfterAttempt,
   exceptions |-> {e \in Exceptions : is_retryable_exception(e)},
   statuses |-> {c \in Statuses : is_retryable_status_code(c)}]

\* tenacity.retry(*dargs, **dkw): "if len(dargs) == 1 and
\* callable(dargs[0]): return retry()(dargs[0])", so that @retry can be
\* written without parentheses; the keyword arguments are used only in the
\* other branch
tn_retry(dargs, dkw) == IF Len(dargs) = 1 THEN DefaultPolicy ELSE dkw

\* http_retry(func): tn.retry(func, stop=..., retry=..., wait=...)
http_retry == tn_retry(<<"func">>, KeywordPolicy)

\* the policy asks for another attempt after outcome o
Retries(policy, o) ==
  IF o.exc # "" THEN o.exc \in policy.exceptions ELSE o.status \in policy.statuses

AttemptStep ==
  UNCHANGED <<now, platform, blobstore, fs, phase, gen, environ, attempted,
              cache, changed, auth, facade, prov, args, nextId, last, save,
              threads, load, umask, umask0, writers>>

\* the wrapped function is called
HttpRetryCall ==
  /\ attempt.pc = "idle"
  /\ attempt' = [NoAttempt EXCEPT !.pc = "running", !.number = 1]
  /\ AttemptStep

\* Retrying.__call__, DoAttempt: fn(*args, **kwargs) returns or raises
HttpRetryAttempt ==
  /\ attempt.pc = "running"
  /\ \E o \in Outcomes : attempt' = [attempt EXCEPT !.pc = "ended", !.outcome = o]
  /\ AttemptStep

\* Retrying.iter after an attempt: the outcome is returned or raised unless
\* the policy retries it; RetryError is raised when the policy stops; else
\* the function is attempted again
HttpRetryDecide ==
  /\ attempt.pc = "ended"
  /\ attempt' =
       IF ~Retries(http_retry, attempt.outcome)
       THEN [attempt EXCEPT !.pc = IF attempt.outcome.exc # "" THEN "raised"
                                   ELSE "returned"]
       ELSE IF http_retry.stop # 0 /\ attempt.number >= http_retry.stop
       THEN [attempt EXCEPT !.pc = "raised",
                            !.outcome = [exc |-> "RetryError", status |-> 0]]
       ELSE [attempt EXCEPT !.pc = "running",
                            !.number = IF @ < MaxAttempts THEN @ + 1 ELSE @,
                            !.retried_after = @ \cup {attempt.outcome}]
  /\ AttemptStep

NextHttpRetry ==
  \/ HttpRetryCall
  \/ HttpRetryAttempt
  \/ HttpRetryDecide

SpecHttpRetry == Init /\ [][NextHttpRetry]_vars

\* the caller's function is attempted again and again with the same failure
SpecHttpRetryFair ==
  SpecHttpRetry /\ WF_vars(HttpRetryAttempt) /\ WF_vars(HttpRetryDecide)

\* C39: a call wrapped by http_retry is attempted at most 6 times, and it
\* is attempted again only after a timeout or connect exception or a
\* response with status 502, 503 or 504; every other outcome ends the call.
C39_AtMostSixAttempts ==
  /\ attempt.number <= StopAfterAttempt
  /\ \A o \in attempt.retried_after :
       is_retryable_exception(o.exc) \/ is_retryable_status_code(o.status)

\* C39, termination: a call that has started ends
C39_Terminates ==
  (attempt.pc = "running") ~> (attempt.pc \in {"returned", "raised"})

\* what holds: a response, whatever its status, is returned at once, and an
\* exception that is not an Exception is raised at once
C39_ResponsesNotRetried ==
  \A o \in attempt.retried_after : o.exc \in Exceptions \ {"KeyboardInterrupt"}

====
